---- MODULE Spec2Model ----
(***************************************************************************)
(* A model of nextauth-simple: the credential store, the session manager,  *)
(* the single-use token flows (password reset, magic link, account         *)
(* verification, 2FA challenge) and the TOTP / recovery-code verifier.     *)
(*                                                                         *)
(* Every exported handler is a pure operator over a database record `s`    *)
(* and the clock `t`; it returns [s |-> the database after the call,       *)
(* r |-> the value the handler returns].  The actions apply one handler to *)
(* the current state.  Strings the code inspects character by character    *)
(* (emails, passwords) are sequences of one-character strings.  Random     *)
(* values (crypto.randomUUID, crypto.randomBytes) are fresh integers drawn *)
(* from the counter nextUuid.  Dates are integers (clock ticks).           *)
(***************************************************************************)
EXTENDS Integers, Sequences, FiniteSets, TLC

VARIABLES
    now,            \* the wall clock, read by every `new Date()`
    users,          \* db.tables.users
    sessions,       \* db.tables.sessions
    cookie,         \* the 'nextauth-simple-session' cookie of the response
    nextUuid,       \* source of fresh random values
    usersTwoFactor, \* users_two_factor
    challenges,     \* two_factor_challenges
    resetTokens,    \* password_reset_tokens
    magicTokens,    \* magic_url_tokens
    verifTokens,    \* account_verification_tokens
    verifStatus,    \* user_verification_status
    outbox,         \* every mail handed to the sendEmail function
    roles,          \* roles
    userRoles,      \* user_roles
    permissionCache,\* the module-level permissionCache of the RBAC feature
    auditLogs,      \* audit_logs
    socialAccounts, \* social_accounts
    oauthStates,    \* every state string getAuthorizationUrl has handed out
    call,           \* the last handler called, with its input
    result,         \* what that handler returned
    procs           \* in-flight requests of the interleaved specification

vars == <<now, users, sessions, cookie, nextUuid, usersTwoFactor, challenges,
          resetTokens, magicTokens, verifTokens, verifStatus, outbox, roles,
          userRoles, permissionCache, auditLogs, socialAccounts, oauthStates,
          call, result, procs>>

(***************************************************************************)
(* Bounds of the model.                                                    *)
(***************************************************************************)
MaxTime == 3
MaxUuid == 7
\* configurable lifetimes, in clock ticks
SessionExpiry == 2
ResetExpiry == 2
MagicExpiry == 2
VerificationExpiry == 2
ChallengeExpiry == 1
WindowSize == 1
RecoveryCodesCount == 2
\* fresh random values each feature specification may draw
TwoFactorDraws == 5
TokenDraws == 3
CacheTTL == 1
RbacDraws == 2
AuditDraws == 2
\* the lifetime of an OAuth state (10 minutes), in clock ticks
OAuthStateExpiry == 1
SocialDraws == 4
\* state strings handed out in one run
StatesIssued == 2

(***************************************************************************)
(* Program constants.                                                      *)
(***************************************************************************)
BcryptWorkFactor == 12
RecoveryWorkFactor == 8
MinEmailLength == 5
MinPasswordLength == 8
Null == -1
NoCookie == 0

(***************************************************************************)
(* Strings.                                                                *)
(***************************************************************************)
Lower(c) ==
    CASE c = "A" -> "a"
      [] c = "B" -> "b"
      [] c = "C" -> "c"
      [] OTHER -> c

ToLowerCase(str) == [i \in DOMAIN str |-> Lower(str[i])]

Includes(str, c) == \E i \in DOMAIN str : str[i] = c

EmailAlice == <<"a", "@", "x", ".", "y">>
EmailAliceUpper == <<"A", "@", "x", ".", "y">>
EmailBob == <<"b", "@", "x", ".", "y">>
EmailNoAt == <<"a", "x", ".", "y", "z">>
EmailShort == <<"a", "@", "x">>

Password1 == <<"p", "a", "s", "s", "w", "o", "r", "d">>
Password2 == <<"P", "a", "s", "s", "w", "0", "r", "d">>
PasswordShort == <<"p", "w">>
PasswordEmpty == <<>>

(***************************************************************************)
(* Password hashing.  bcrypt.hash is one-way: the model keeps the          *)
(* plaintext inside the hash value only so that compare can be computed.   *)
(* A column value that is no hash has kind "plain".                        *)
(***************************************************************************)
hashPassword(password, workFactor) ==
    [kind |-> "hash", of |-> password, cost |-> workFactor]

\* a column value that is a plain string, not the output of hashPassword
PlainText(str) == [kind |-> "plain", of |-> str, cost |-> 0]

comparePassword(password, hash) ==
    hash.kind = "hash" /\ hash.of = password

(***************************************************************************)
(* The database as a value.                                                *)
(***************************************************************************)
State ==
    [users |-> users, sessions |-> sessions, cookie |-> cookie,
     nextUuid |-> nextUuid, usersTwoFactor |-> usersTwoFactor,
     challenges |-> challenges, resetTokens |-> resetTokens,
     magicTokens |-> magicTokens, verifTokens |-> verifTokens,
     verifStatus |-> verifStatus, outbox |-> outbox, roles |-> roles,
     userRoles |-> userRoles, permissionCache |-> permissionCache,
     auditLogs |-> auditLogs, socialAccounts |-> socialAccounts,
     oauthStates |-> oauthStates]

EmptyState ==
    [users |-> {}, sessions |-> {}, cookie |-> NoCookie, nextUuid |-> 1,
     usersTwoFactor |-> {}, challenges |-> {}, resetTokens |-> {},
     magicTokens |-> {}, verifTokens |-> {}, verifStatus |-> {}, outbox |-> {},
     roles |-> {}, userRoles |-> {}, permissionCache |-> {}, auditLogs |-> {},
     socialAccounts |-> {}, oauthStates |-> {}]

Commit(s) ==
    /\ users' = s.users
    /\ sessions' = s.sessions
    /\ cookie' = s.cookie
    /\ nextUuid' = s.nextUuid
    /\ usersTwoFactor' = s.usersTwoFactor
    /\ challenges' = s.challenges
    /\ resetTokens' = s.resetTokens
    /\ magicTokens' = s.magicTokens
    /\ verifTokens' = s.verifTokens
    /\ verifStatus' = s.verifStatus
    /\ outbox' = s.outbox
    /\ roles' = s.roles
    /\ userRoles' = s.userRoles
    /\ permissionCache' = s.permissionCache
    /\ auditLogs' = s.auditLogs
    /\ socialAccounts' = s.socialAccounts
    /\ oauthStates' = s.oauthStates

Ret(s, r) == [s |-> s, r |-> r]

\* crypto.randomUUID() / crypto.randomBytes(): a value never drawn before
Fresh(s) == s.nextUuid
Drawn(s) == [s EXCEPT !.nextUuid = @ + 1]

\* sendEmail(to, subject, html): the link in the mail carries the token
SendEmail(s, purpose, to, token) ==
    [s EXCEPT !.outbox = @ \cup {[purpose |-> purpose, to |-> to, token |-> token]}]

(***************************************************************************)
(* Core: packages/nextauth-simple/src/auth.ts                              *)
(***************************************************************************)
AuthResult(success, error, userId, sessionId) ==
    [success |-> success, error |-> error, userId |-> userId,
     sessionId |-> sessionId, requiresTwoFactor |-> FALSE,
     challengeToken |-> Null]

AuthFailure(error) == AuthResult(FALSE, error, Null, Null)

validateRegistrationInput(email, password) ==
    IF Len(email) = 0 \/ ~Includes(email, "@") \/ Len(email) < MinEmailLength
    THEN [valid |-> FALSE, error |-> "Invalid email address"]
    ELSE IF Len(password) = 0 \/ Len(password) < MinPasswordLength
    THEN [valid |-> FALSE, error |-> "Password must be at least 8 characters long"]
    ELSE [valid |-> TRUE, error |-> ""]

validateLoginInput(email, password) ==
    IF Len(email) = 0 \/ ~Includes(email, "@")
    THEN [valid |-> FALSE, error |-> "Invalid email address"]
    ELSE IF Len(password) = 0
    THEN [valid |-> FALSE, error |-> "Password is required"]
    ELSE [valid |-> TRUE, error |-> ""]

\* select().from(users).where(eq(users.email, email)).limit(1)
UsersByEmail(s, email) == {u \in s.users : u.email = email}
UsersById(s, id) == {u \in s.users : u.id = id}

\* insert into users: the primary key and the unique email are enforced by
\* the store; a violation makes execute() throw.
InsertUser(s, row) ==
    IF \E u \in s.users : u.email = row.email \/ u.id = row.id
    THEN [ok |-> FALSE, s |-> s]
    ELSE [ok |-> TRUE, s |-> [s EXCEPT !.users = @ \cup {row}]]

createSession(s, t, userId) ==
    LET token == Fresh(s)
        s1 == Drawn(s)
        session == [id |-> Fresh(s1), userId |-> userId, token |-> token,
                    expiresAt |-> t + SessionExpiry]
        s2 == Drawn(s1)
    IN  [s |-> [s2 EXCEPT !.sessions = @ \cup {session}, !.cookie = token],
         session |-> session]

\* registerUser without the toLowerCase() normalisation of the email
registerUserCaseSensitive(s, t, email, password) ==
    LET v == validateRegistrationInput(email, password) IN
    IF ~v.valid THEN Ret(s, AuthFailure(v.error))
    ELSE IF UsersByEmail(s, email) # {}
    THEN Ret(s, AuthFailure("User already exists"))
    ELSE
        LET userId == Fresh(s)
            newUser == [id |-> userId, email |-> email,
                        password |-> hashPassword(password, BcryptWorkFactor),
                        updatedAt |-> t]
            ins == InsertUser(Drawn(s), newUser)
        IN  IF ~ins.ok THEN Ret(ins.s, AuthFailure("Registration failed"))
            ELSE LET cs == createSession(ins.s, t, userId)
                 IN  Ret(cs.s, AuthResult(TRUE, "", userId, cs.session.id))

registerUser(s, t, email, password) ==
    LET v == validateRegistrationInput(email, password) IN
    IF ~v.valid THEN Ret(s, AuthFailure(v.error))
    ELSE IF UsersByEmail(s, ToLowerCase(email)) # {}
    THEN Ret(s, AuthFailure("User already exists"))
    ELSE
        LET hashedPassword == hashPassword(password, BcryptWorkFactor)
            userId == Fresh(s)
            newUser == [id |-> userId, email |-> ToLowerCase(email),
                        password |-> hashedPassword, updatedAt |-> t]
            ins == InsertUser(Drawn(s), newUser)
        IN  IF ~ins.ok THEN Ret(ins.s, AuthFailure("Registration failed"))
            ELSE LET cs == createSession(ins.s, t, userId)
                 IN  Ret(cs.s, AuthResult(TRUE, "", userId, cs.session.id))

\* loginUser telling an unknown email apart from a wrong password
loginUserEnumerating(s, t, email, password) ==
    LET v == validateLoginInput(email, password) IN
    IF ~v.valid THEN Ret(s, AuthFailure(v.error))
    ELSE LET found == UsersByEmail(s, ToLowerCase(email)) IN
    IF found = {} THEN Ret(s, AuthFailure("User not found"))
    ELSE LET user == CHOOSE u \in found : TRUE IN
    IF ~comparePassword(password, user.password)
    THEN Ret(s, AuthFailure("Invalid email or password"))
    ELSE LET cs == createSession(s, t, user.id)
         IN  Ret(cs.s, AuthResult(TRUE, "", user.id, cs.session.id))

\* loginUser closing the user's sessions when the password is wrong
loginUserClosingSessions(s, t, email, password) ==
    LET v == validateLoginInput(email, password) IN
    IF ~v.valid THEN Ret(s, AuthFailure(v.error))
    ELSE LET found == UsersByEmail(s, ToLowerCase(email)) IN
    IF found = {} THEN Ret(s, AuthFailure("Invalid email or password"))
    ELSE LET user == CHOOSE u \in found : TRUE IN
    IF ~comparePassword(password, user.password)
    THEN Ret([s EXCEPT !.sessions = {x \in @ : x.userId # user.id}],
             AuthFailure("Invalid email or password"))
    ELSE LET cs == createSession(s, t, user.id)
         IN  Ret(cs.s, AuthResult(TRUE, "", user.id, cs.session.id))

loginUser(s, t, email, password) ==
    LET v == validateLoginInput(email, password) IN
    IF ~v.valid THEN Ret(s, AuthFailure(v.error))
    ELSE LET found == UsersByEmail(s, ToLowerCase(email)) IN
    IF found = {} THEN Ret(s, AuthFailure("Invalid email or password"))
    ELSE LET user == CHOOSE u \in found : TRUE IN
    IF ~comparePassword(password, user.password)
    THEN Ret(s, AuthFailure("Invalid email or password"))
    ELSE LET cs == createSession(s, t, user.id)
         IN  Ret(cs.s, AuthResult(TRUE, "", user.id, cs.session.id))

\* logoutUser deleting every session instead of the one holding the token
logoutUserEverywhere(s, sessionToken) ==
    IF sessionToken # NoCookie
    THEN Ret([s EXCEPT !.sessions = {}, !.cookie = NoCookie], [success |-> TRUE])
    ELSE Ret(s, [success |-> TRUE])

logoutUser(s, sessionToken) ==
    IF sessionToken # NoCookie
    THEN Ret([s EXCEPT !.sessions = {x \in @ : x.token # sessionToken},
                       !.cookie = NoCookie],
             [success |-> TRUE])
    ELSE Ret(s, [success |-> TRUE])

(***************************************************************************)
(* Sessions: packages/nextauth-simple/src/session.ts                       *)
(***************************************************************************)
NoSession ==
    [found |-> FALSE, id |-> Null, userId |-> Null, expiresAt |-> Null,
     email |-> <<>>]

\* getSessionByToken leaving an expired row in place
getSessionByTokenNoDelete(s, t, token) ==
    LET found == {x \in s.sessions : x.token = token} IN
    IF found = {} THEN Ret(s, NoSession)
    ELSE LET session == CHOOSE x \in found : TRUE IN
    IF t > session.expiresAt THEN Ret(s, NoSession)
    ELSE LET us == UsersById(s, session.userId) IN
    IF us = {} THEN Ret(s, NoSession)
    ELSE LET user == CHOOSE u \in us : TRUE
         IN  Ret(s, [found |-> TRUE, id |-> session.id, userId |-> session.userId,
                     expiresAt |-> session.expiresAt, email |-> user.email])

getSessionByToken(s, t, token) ==
    LET found == {x \in s.sessions : x.token = token} IN
    IF found = {} THEN Ret(s, NoSession)
    ELSE LET session == CHOOSE x \in found : TRUE IN
    IF t > session.expiresAt
    THEN Ret([s EXCEPT !.sessions = {x \in @ : x.id # session.id}], NoSession)
    ELSE LET us == UsersById(s, session.userId) IN
    IF us = {} THEN Ret(s, NoSession)
    ELSE LET user == CHOOSE u \in us : TRUE
         IN  Ret(s, [found |-> TRUE, id |-> session.id, userId |-> session.userId,
                     expiresAt |-> session.expiresAt, email |-> user.email])

getSessionFromCookie(s, t, token) ==
    IF token = NoCookie THEN Ret(s, NoSession) ELSE getSessionByToken(s, t, token)

getServerSession(s, t, token) ==
    IF token = NoCookie THEN Ret(s, NoSession) ELSE getSessionByToken(s, t, token)

(***************************************************************************)
(* Actions of the core.                                                    *)
(***************************************************************************)
Emails == {EmailAlice, EmailAliceUpper, EmailBob, EmailNoAt, EmailShort}
Passwords == {Password1, Password2, PasswordShort, PasswordEmpty}

\* a token no session ever had
UnknownToken == MaxUuid + 100

\* what a request may carry in its session cookie
RequestCookies ==
    {NoCookie, cookie, UnknownToken} \cup {x.token : x \in sessions}

Do(op, input, out) ==
    /\ Commit(out.s)
    /\ call' = [op |-> op, input |-> input]
    /\ result' = out.r
    /\ UNCHANGED <<now, procs>>

RegisterUser ==
    \E email \in Emails, password \in Passwords :
        /\ nextUuid <= MaxUuid
        /\ Do("registerUser", [email |-> email, password |-> password],
              registerUser(State, now, email, password))

LoginUser ==
    \E email \in Emails, password \in Passwords :
        /\ nextUuid <= MaxUuid
        /\ Do("loginUser", [email |-> email, password |-> password],
              loginUser(State, now, email, password))

LogoutUser ==
    \E token \in RequestCookies :
        Do("logoutUser", [token |-> token], logoutUser(State, token))

GetSessionFromCookie ==
    \E token \in RequestCookies :
        Do("getSessionFromCookie", [token |-> token],
           getSessionFromCookie(State, now, token))

GetServerSession ==
    \E token \in RequestCookies :
        Do("getServerSession", [token |-> token],
           getServerSession(State, now, token))

Tick ==
    /\ now < MaxTime
    /\ now' = now + 1
    /\ UNCHANGED <<users, sessions, cookie, nextUuid, usersTwoFactor, challenges,
                   resetTokens, magicTokens, verifTokens, verifStatus, outbox,
                   roles, userRoles, permissionCache, auditLogs, socialAccounts,
                   oauthStates, call, result, procs>>

NoCall == [op |-> "none", input |-> <<>>]

InitDb(s) ==
    /\ now = 0
    /\ users = s.users
    /\ sessions = s.sessions
    /\ cookie = s.cookie
    /\ nextUuid = s.nextUuid
    /\ usersTwoFactor = s.usersTwoFactor
    /\ challenges = s.challenges
    /\ resetTokens = s.resetTokens
    /\ magicTokens = s.magicTokens
    /\ verifTokens = s.verifTokens
    /\ verifStatus = s.verifStatus
    /\ outbox = s.outbox
    /\ roles = s.roles
    /\ userRoles = s.userRoles
    /\ permissionCache = s.permissionCache
    /\ auditLogs = s.auditLogs
    /\ socialAccounts = s.socialAccounts
    /\ oauthStates = s.oauthStates
    /\ call = NoCall
    /\ result = <<>>

InitWith(s) ==
    /\ InitDb(s)
    /\ procs = <<>>

Init == InitWith(EmptyState)

Next ==
    \/ RegisterUser
    \/ LoginUser
    \/ LogoutUser
    \/ GetSessionFromCookie
    \/ GetServerSession
    \/ Tick

Spec == Init /\ [][Next]_vars

(***************************************************************************)
(* Two-factor authentication:                                              *)
(*   packages/nextauth-simple/src/features/twoFactor/{utils,index,auth}.ts *)
(* The rows of users_two_factor keep userId, secret, enabled, backupCodes  *)
(* and verifiedAt; backupCodes is the parsed JSON array.                   *)
(***************************************************************************)
TwoFactorFeatureEnabled == TRUE

DigitChars == <<"0", "1", "2", "3", "4", "5", "6", "7", "8", "9">>
Digit(n) == DigitChars[(n % 10) + 1]
TwoDigits(n) == <<Digit(n \div 10), Digit(n)>>

UpperAlnum ==
    {"A", "B", "C", "D", "E", "F", "G", "H", "I", "J", "K", "L", "M", "N", "O",
     "P", "Q", "R", "S", "T", "U", "V", "W", "X", "Y", "Z"}
    \cup {DigitChars[i] : i \in DOMAIN DigitChars}

\* authenticator.generate: the code of a secret at a time step
TotpGenerate(secret, step) == TwoDigits(secret) \o TwoDigits(step)

\* one time step per clock tick
TimeStep(t) == t

verifyTotpToken(secret, token, t) ==
    \E d \in (0 - WindowSize)..WindowSize :
        /\ TimeStep(t) + d >= 0
        /\ token = TotpGenerate(secret, TimeStep(t) + d)

\* a random code in its displayed format, with a dash between the groups
RecoveryCodeOf(n) == <<"C", Digit(n \div 10), "-", Digit(n)>>

RECURSIVE generateRecoveryCodes(_, _)
generateRecoveryCodes(s, count) ==
    IF count = 0 THEN [s |-> s, codes |-> <<>>]
    ELSE LET rest == generateRecoveryCodes(s, count - 1)
         IN  [s |-> Drawn(rest.s),
              codes |-> Append(rest.codes, RecoveryCodeOf(Fresh(rest.s)))]

hashRecoveryCodes(codes) ==
    [i \in DOMAIN codes |-> hashPassword(codes[i], RecoveryWorkFactor)]

\* code.replace(/[^A-Z0-9]/g, '')
NormalizeCode(code) == SelectSeq(code, LAMBDA c : c \in UpperAlnum)

\* +str of a string that is no number
NaN == Null
ToNumber(stored) == NaN

\* a string used as a condition: true unless it is empty
Truthy(value) == value.kind = "hash" \/ Len(value.of) > 0

\* the zero-based index of the first entry the loop accepts, or -1
verifyRecoveryCode(code, hashedCodes) ==
    LET normalizedCode == NormalizeCode(code)
        isMatch(i) == Truthy(hashPassword(normalizedCode, ToNumber(hashedCodes[i])))
        hits == {i \in DOMAIN hashedCodes : isMatch(i)}
    IN  IF hits = {} THEN Null
        ELSE (CHOOSE i \in hits : \A j \in hits : i <= j) - 1

UsedMarker == PlainText(<<"U", "S", "E", "D">>)

NoToken == 0

TwoFactorResult(success, error, verified, challengeToken, userId) ==
    [success |-> success, error |-> error, verified |-> verified,
     challengeToken |-> challengeToken, userId |-> userId,
     secret |-> Null, recoveryCodes |-> <<>>]

TwoFactorFailure(error) == TwoFactorResult(FALSE, error, FALSE, Null, Null)

SetupsOf(s, userId) == {x \in s.usersTwoFactor : x.userId = userId}

setupTwoFactor(s, t, userId) ==
    IF ~TwoFactorFeatureEnabled
    THEN Ret(s, TwoFactorFailure("Two-factor authentication is not enabled"))
    ELSE IF UsersById(s, userId) = {}
    THEN Ret(s, TwoFactorFailure("User not found"))
    ELSE IF SetupsOf(s, userId) # {}
    THEN Ret(s, TwoFactorFailure("Two-factor authentication is already set up"))
    ELSE
        LET secret == Fresh(s)
            gen == generateRecoveryCodes(Drawn(s), RecoveryCodesCount)
            row == [userId |-> userId, secret |-> secret, enabled |-> FALSE,
                    backupCodes |-> hashRecoveryCodes(gen.codes),
                    verifiedAt |-> Null]
        IN  Ret([gen.s EXCEPT !.usersTwoFactor = @ \cup {row}],
                [TwoFactorResult(TRUE, "", FALSE, Null, Null)
                    EXCEPT !.secret = secret, !.recoveryCodes = gen.codes])

\* verifyAndEnableTwoFactor without the test of the code
verifyAndEnableTwoFactorAnyCode(s, t, userId, code) ==
    IF SetupsOf(s, userId) = {}
    THEN Ret(s, TwoFactorFailure("Two-factor authentication is not set up"))
    ELSE LET setup == CHOOSE x \in SetupsOf(s, userId) : TRUE IN
    IF setup.enabled
    THEN Ret(s, TwoFactorFailure("Two-factor authentication is already enabled"))
    ELSE Ret([s EXCEPT !.usersTwoFactor =
                {IF x.userId = userId
                 THEN [x EXCEPT !.enabled = TRUE, !.verifiedAt = t]
                 ELSE x : x \in @}],
             TwoFactorResult(TRUE, "", TRUE, Null, Null))

verifyAndEnableTwoFactor(s, t, userId, code) ==
    IF ~TwoFactorFeatureEnabled
    THEN Ret(s, TwoFactorFailure("Two-factor authentication is not enabled"))
    ELSE IF SetupsOf(s, userId) = {}
    THEN Ret(s, TwoFactorFailure("Two-factor authentication is not set up"))
    ELSE LET setup == CHOOSE x \in SetupsOf(s, userId) : TRUE IN
    IF setup.enabled
    THEN Ret(s, TwoFactorFailure("Two-factor authentication is already enabled"))
    ELSE IF ~verifyTotpToken(setup.secret, code, t)
    THEN Ret(s, TwoFactorFailure("Invalid verification code"))
    ELSE Ret([s EXCEPT !.usersTwoFactor =
                {IF x.userId = userId
                 THEN [x EXCEPT !.enabled = TRUE, !.verifiedAt = t]
                 ELSE x : x \in @}],
             TwoFactorResult(TRUE, "", TRUE, Null, Null))

createTwoFactorChallenge(s, t, userId) ==
    IF ~TwoFactorFeatureEnabled
    THEN Ret(s, TwoFactorFailure("Two-factor authentication is not enabled"))
    ELSE
        LET challengeToken == Fresh(s)
            s1 == Drawn(s)
            row == [id |-> Fresh(s1), userId |-> userId, token |-> challengeToken,
                    expiresAt |-> t + ChallengeExpiry]
        IN  Ret([Drawn(s1) EXCEPT !.challenges = @ \cup {row}],
                TwoFactorResult(TRUE, "", FALSE, challengeToken, Null))

\* delete from two_factor_challenges where token = challengeToken, if given
CleanUpChallenge(s, challengeToken) ==
    IF challengeToken # NoToken
    THEN [s EXCEPT !.challenges = {c \in @ : c.token # challengeToken}]
    ELSE s

\* the part of verifyTwoFactorCode after the challenge check
VerifyCodeAgainstSetup(s, t, userId, code, challengeToken) ==
    IF SetupsOf(s, userId) = {}
    THEN Ret(s, TwoFactorFailure("Two-factor authentication is not set up"))
    ELSE LET setup == CHOOSE x \in SetupsOf(s, userId) : TRUE IN
    IF ~setup.enabled
    THEN Ret(s, TwoFactorFailure("Two-factor authentication is not enabled"))
    ELSE IF verifyTotpToken(setup.secret, code, t)
    THEN Ret(CleanUpChallenge(s, challengeToken),
             TwoFactorResult(TRUE, "", TRUE, Null, Null))
    ELSE LET hashedCodes == setup.backupCodes
             recoveryCodeIndex == verifyRecoveryCode(code, hashedCodes)
         IN
    IF recoveryCodeIndex >= 0
    THEN LET marked == [hashedCodes EXCEPT ![recoveryCodeIndex + 1] = UsedMarker]
             s1 == [s EXCEPT !.usersTwoFactor =
                      {IF x.userId = userId
                       THEN [x EXCEPT !.backupCodes = marked]
                       ELSE x : x \in @}]
         IN  Ret(CleanUpChallenge(s1, challengeToken),
                 TwoFactorResult(TRUE, "", TRUE, Null, Null))
    ELSE Ret(s, TwoFactorResult(FALSE, "Invalid verification code", FALSE, Null, userId))

verifyTwoFactorCode(s, t, userId, code, challengeToken) ==
    IF ~TwoFactorFeatureEnabled
    THEN Ret(s, TwoFactorFailure("Two-factor authentication is not enabled"))
    ELSE IF challengeToken # NoToken
    THEN LET found == {c \in s.challenges :
                          c.userId = userId /\ c.token = challengeToken} IN
         IF found = {} THEN Ret(s, TwoFactorFailure("Invalid challenge token"))
         ELSE LET challenge == CHOOSE c \in found : TRUE IN
         IF t > challenge.expiresAt
         THEN Ret(s, TwoFactorFailure("Challenge token expired"))
         ELSE VerifyCodeAgainstSetup(s, t, userId, code, challengeToken)
    ELSE VerifyCodeAgainstSetup(s, t, userId, code, challengeToken)

\* disableTwoFactor leaving the user's challenges in place
disableTwoFactorKeepChallenges(s, userId) ==
    Ret([s EXCEPT !.usersTwoFactor = {x \in @ : x.userId # userId}],
        [success |-> TRUE, error |-> ""])

disableTwoFactor(s, userId) ==
    Ret([s EXCEPT !.usersTwoFactor = {x \in @ : x.userId # userId},
                  !.challenges = {c \in @ : c.userId # userId}],
        [success |-> TRUE, error |-> ""])

NoStatus == [found |-> FALSE, enabled |-> FALSE, verified |-> FALSE]

getTwoFactorStatus(s, userId) ==
    IF SetupsOf(s, userId) = {} THEN NoStatus
    ELSE LET setup == CHOOSE x \in SetupsOf(s, userId) : TRUE
         IN  [found |-> TRUE, enabled |-> setup.enabled,
              verified |-> setup.verifiedAt # Null]

isTwoFactorEnabled(s, userId) ==
    LET status == getTwoFactorStatus(s, userId)
    IN  status.found /\ status.enabled

loginUserWithTwoFactor(s, t, email, password) ==
    LET basic == loginUser(s, t, email, password) IN
    IF ~basic.r.success \/ basic.r.userId = Null THEN basic
    ELSE IF ~(TwoFactorFeatureEnabled /\ isTwoFactorEnabled(basic.s, basic.r.userId))
    THEN basic
    ELSE LET ch == createTwoFactorChallenge(basic.s, t, basic.r.userId) IN
    IF ~ch.r.success
    THEN Ret(ch.s, [basic.r EXCEPT !.requiresTwoFactor = TRUE])
    ELSE Ret(ch.s, [AuthResult(TRUE, "", basic.r.userId, Null)
                        EXCEPT !.requiresTwoFactor = TRUE,
                               !.challengeToken = ch.r.challengeToken])

completeTwoFactorLogin(s, t, userId, code, challengeToken) ==
    LET verifyResult == verifyTwoFactorCode(s, t, userId, code, challengeToken) IN
    IF ~verifyResult.r.success
    THEN Ret(verifyResult.s, AuthFailure(verifyResult.r.error))
    ELSE IF UsersById(verifyResult.s, userId) = {}
    THEN Ret(verifyResult.s, AuthFailure("User not found"))
    ELSE LET cs == createSession(verifyResult.s, t, userId)
         IN  Ret(cs.s, AuthResult(TRUE, "", userId, cs.session.id))

(***************************************************************************)
(* The two-factor specification starts with alice and bob registered and   *)
(* logged out, and alice enrolled: the state the handlers produce when     *)
(* applied in that order.                                                  *)
(***************************************************************************)
AfterAlice == registerUser(EmptyState, 0, EmailAlice, Password1).s
AfterAliceOut == logoutUser(AfterAlice, AfterAlice.cookie).s
AfterBob == registerUser(AfterAliceOut, 0, EmailBob, Password2).s
RegisteredState == logoutUser(AfterBob, AfterBob.cookie).s

UserIdOf(s, email) == (CHOOSE u \in s.users : u.email = email).id
SecretOf(s, userId) == (CHOOSE x \in s.usersTwoFactor : x.userId = userId).secret

AliceSetUp == setupTwoFactor(RegisteredState, 0, UserIdOf(RegisteredState, EmailAlice)).s
EnrolledState ==
    verifyAndEnableTwoFactor(AliceSetUp, 0, UserIdOf(AliceSetUp, EmailAlice),
        TotpGenerate(SecretOf(AliceSetUp, UserIdOf(AliceSetUp, EmailAlice)), 0)).s

UnknownUserId == MaxUuid + 101
WrongCode == <<"0", "0", "0", "0", "0", "0">>

UserIds == {u.id : u \in users}

\* the recovery codes shown to the user at setup: the draws after the secret
RecoveryCodesShown(secret) == {RecoveryCodeOf(secret + k) : k \in 1..RecoveryCodesCount}

\* codes a client may submit for a user: the current and an outdated
\* authenticator code of the enrollment, the recovery codes shown, and a
\* code that is neither
CodeInputs(userId) ==
    {WrongCode}
    \cup {TotpGenerate(x.secret, TimeStep(now)) : x \in SetupsOf(State, userId)}
    \cup {TotpGenerate(x.secret, TimeStep(now) + WindowSize + 1) :
            x \in SetupsOf(State, userId)}
    \cup UNION {RecoveryCodesShown(x.secret) : x \in SetupsOf(State, userId)}

ChallengeInputs == {NoToken} \cup {c.token : c \in challenges}

TwoFactorCap == EnrolledState.nextUuid + TwoFactorDraws

SetupTwoFactor ==
    \E userId \in UserIds \cup {UnknownUserId} :
        /\ nextUuid < TwoFactorCap
        /\ Do("setupTwoFactor", [userId |-> userId],
              setupTwoFactor(State, now, userId))

VerifyAndEnableTwoFactor ==
    \E userId \in UserIds : \E code \in CodeInputs(userId) :
        Do("verifyAndEnableTwoFactor", [userId |-> userId, code |-> code],
           verifyAndEnableTwoFactor(State, now, userId, code))

VerifyTwoFactorCode ==
    \E userId \in UserIds, token \in ChallengeInputs : \E code \in CodeInputs(userId) :
        Do("verifyTwoFactorCode",
           [userId |-> userId, code |-> code, challengeToken |-> token],
           verifyTwoFactorCode(State, now, userId, code, token))

DisableTwoFactor ==
    \E userId \in UserIds :
        Do("disableTwoFactor", [userId |-> userId], disableTwoFactor(State, userId))

LoginUserWithTwoFactor ==
    \E email \in {EmailAlice, EmailBob}, password \in {Password1, Password2} :
        /\ nextUuid < TwoFactorCap
        /\ Do("loginUserWithTwoFactor", [email |-> email, password |-> password],
              loginUserWithTwoFactor(State, now, email, password))

CompleteTwoFactorLogin ==
    \E userId \in UserIds, token \in ChallengeInputs : \E code \in CodeInputs(userId) :
        /\ nextUuid < TwoFactorCap
        /\ Do("completeTwoFactorLogin",
              [userId |-> userId, code |-> code, challengeToken |-> token],
              completeTwoFactorLogin(State, now, userId, code, token))

InitTwoFactor == InitWith(EnrolledState)

NextTwoFactor ==
    \/ SetupTwoFactor
    \/ VerifyAndEnableTwoFactor
    \/ VerifyTwoFactorCode
    \/ DisableTwoFactor
    \/ LoginUserWithTwoFactor
    \/ CompleteTwoFactorLogin
    \/ Tick

SpecTwoFactor == InitTwoFactor /\ [][NextTwoFactor]_vars

(***************************************************************************)
(* Password reset: packages/nextauth-simple/src/features/password/index.ts *)
(***************************************************************************)
PasswordResetFeatureEnabled == TRUE

ValidEmail(email) ==
    ~(Len(email) = 0 \/ ~Includes(email, "@") \/ Len(email) < MinEmailLength)

RequestResult(success, error, emailSent) ==
    [success |-> success, error |-> error, emailSent |-> emailSent]

\* requestPasswordReset without the delete of the user's earlier tokens
requestPasswordResetKeepOld(s, t, email, delivered) ==
    IF ~ValidEmail(email)
    THEN Ret(s, RequestResult(FALSE, "Invalid email address", FALSE))
    ELSE LET found == UsersByEmail(s, ToLowerCase(email)) IN
    IF found = {} THEN Ret(s, RequestResult(TRUE, "", TRUE))
    ELSE
        LET user == CHOOSE u \in found : TRUE
            token == Fresh(s)
            s1 == Drawn(s)
            row == [id |-> Fresh(s1), userId |-> user.id, token |-> token,
                    expiresAt |-> t + ResetExpiry, usedAt |-> Null]
            s3 == [Drawn(s1) EXCEPT !.resetTokens = @ \cup {row}]
            s2 == SendEmail(s3, "reset", ToLowerCase(email), token)
        IN  IF ~delivered
            THEN Ret(s2, RequestResult(FALSE, "Failed to send email", FALSE))
            ELSE Ret(s2, RequestResult(TRUE, "", TRUE))

\* `delivered` is what the sendEmail function returns
requestPasswordReset(s, t, email, delivered) ==
    IF ~PasswordResetFeatureEnabled
    THEN Ret(s, RequestResult(FALSE, "Password reset is not enabled", FALSE))
    ELSE IF ~ValidEmail(email)
    THEN Ret(s, RequestResult(FALSE, "Invalid email address", FALSE))
    ELSE LET found == UsersByEmail(s, ToLowerCase(email)) IN
    IF found = {} THEN Ret(s, RequestResult(TRUE, "", TRUE))
    ELSE
        LET user == CHOOSE u \in found : TRUE
            token == Fresh(s)
            s1 == Drawn(s)
            row == [id |-> Fresh(s1), userId |-> user.id, token |-> token,
                    expiresAt |-> t + ResetExpiry, usedAt |-> Null]
            s3 == [Drawn(s1) EXCEPT !.resetTokens =
                        {x \in @ : x.userId # user.id} \cup {row}]
            s2 == SendEmail(s3, "reset", ToLowerCase(email), token)
        IN  IF ~delivered
            THEN Ret(s2, RequestResult(FALSE, "Failed to send email", FALSE))
            ELSE Ret(s2, RequestResult(TRUE, "", TRUE))

VerifyResult(success, error, valid, userId) ==
    [success |-> success, error |-> error, valid |-> valid, userId |-> userId]

\* verifyPasswordResetToken accepting a token whoever it was issued for
verifyPasswordResetTokenAnyOwner(s, t, token, email) ==
    LET found == UsersByEmail(s, ToLowerCase(email)) IN
    IF found = {} THEN Ret(s, VerifyResult(FALSE, "Invalid token", FALSE, Null))
    ELSE LET user == CHOOSE u \in found : TRUE
             tokens == {x \in s.resetTokens : x.token = token} IN
    IF tokens = {} THEN Ret(s, VerifyResult(FALSE, "Invalid token", FALSE, Null))
    ELSE LET resetToken == CHOOSE x \in tokens : TRUE IN
    IF t > resetToken.expiresAt
    THEN Ret(s, VerifyResult(FALSE, "Token has expired", FALSE, Null))
    ELSE IF resetToken.usedAt # Null
    THEN Ret(s, VerifyResult(FALSE, "Token has already been used", FALSE, Null))
    ELSE Ret(s, VerifyResult(TRUE, "", TRUE, user.id))

verifyPasswordResetToken(s, t, token, email) ==
    IF ~PasswordResetFeatureEnabled
    THEN Ret(s, VerifyResult(FALSE, "Password reset is not enabled", FALSE, Null))
    ELSE LET found == UsersByEmail(s, ToLowerCase(email)) IN
    IF found = {} THEN Ret(s, VerifyResult(FALSE, "Invalid token", FALSE, Null))
    ELSE LET user == CHOOSE u \in found : TRUE
             tokens == {x \in s.resetTokens :
                           x.token = token /\ x.userId = user.id} IN
    IF tokens = {} THEN Ret(s, VerifyResult(FALSE, "Invalid token", FALSE, Null))
    ELSE LET resetToken == CHOOSE x \in tokens : TRUE IN
    IF t > resetToken.expiresAt
    THEN Ret(s, VerifyResult(FALSE, "Token has expired", FALSE, Null))
    ELSE IF resetToken.usedAt # Null
    THEN Ret(s, VerifyResult(FALSE, "Token has already been used", FALSE, Null))
    ELSE Ret(s, VerifyResult(TRUE, "", TRUE, user.id))

CompleteResult(success, error, passwordUpdated) ==
    [success |-> success, error |-> error, passwordUpdated |-> passwordUpdated]

\* update users set password, updatedAt where id = userId
UpdatePassword(s, t, userId, hashedPassword) ==
    [s EXCEPT !.users =
        {IF u.id = userId
         THEN [u EXCEPT !.password = hashedPassword, !.updatedAt = t]
         ELSE u : u \in @}]

\* update password_reset_tokens set usedAt where token = token
MarkResetTokenUsed(s, t, token) ==
    [s EXCEPT !.resetTokens =
        {IF x.token = token THEN [x EXCEPT !.usedAt = t] ELSE x : x \in @}]

\* completePasswordReset without the write that marks the token used
completePasswordResetNoMark(s, t, token, email, password) ==
    IF Len(password) = 0 \/ Len(password) < MinPasswordLength
    THEN Ret(s, CompleteResult(FALSE, "Password must be at least 8 characters long", FALSE))
    ELSE LET verifyResult == verifyPasswordResetToken(s, t, token, email) IN
    IF ~verifyResult.r.success \/ ~verifyResult.r.valid
    THEN Ret(s, CompleteResult(FALSE, verifyResult.r.error, FALSE))
    ELSE Ret(UpdatePassword(s, t, verifyResult.r.userId,
                            hashPassword(password, BcryptWorkFactor)),
             CompleteResult(TRUE, "", TRUE))

\* completePasswordReset that also signs the user out everywhere
completePasswordResetClosingSessions(s, t, token, email, password) ==
    LET out == completePasswordResetNoMark(s, t, token, email, password)
        verifyResult == verifyPasswordResetToken(s, t, token, email)
    IN  IF ~out.r.success THEN out
        ELSE Ret([MarkResetTokenUsed(out.s, t, token) EXCEPT
                    !.sessions = {x \in @ : x.userId # verifyResult.r.userId}],
                 out.r)

completePasswordReset(s, t, token, email, password) ==
    IF ~PasswordResetFeatureEnabled
    THEN Ret(s, CompleteResult(FALSE, "Password reset is not enabled", FALSE))
    ELSE IF Len(password) = 0 \/ Len(password) < MinPasswordLength
    THEN Ret(s, CompleteResult(FALSE, "Password must be at least 8 characters long", FALSE))
    ELSE LET verifyResult == verifyPasswordResetToken(s, t, token, email) IN
    IF ~verifyResult.r.success \/ ~verifyResult.r.valid
    THEN Ret(s, CompleteResult(FALSE, verifyResult.r.error, FALSE))
    ELSE
        LET userId == verifyResult.r.userId
            hashedPassword == hashPassword(password, BcryptWorkFactor)
            s1 == UpdatePassword(s, t, userId, hashedPassword)
        IN  Ret(MarkResetTokenUsed(s1, t, token), CompleteResult(TRUE, "", TRUE))

(***************************************************************************)
(* Magic link: src/unnamed/part_002                                        *)
(***************************************************************************)
MagicUrlFeatureEnabled == TRUE

createMagicUrlLogin(s, t, email, delivered) ==
    IF ~MagicUrlFeatureEnabled
    THEN Ret(s, RequestResult(FALSE, "Magic URL authentication is not enabled", FALSE))
    ELSE IF ~ValidEmail(email)
    THEN Ret(s, RequestResult(FALSE, "Invalid email address", FALSE))
    ELSE
        LET token == Fresh(s)
            s1 == Drawn(s)
            row == [id |-> Fresh(s1), email |-> ToLowerCase(email), token |-> token,
                    expiresAt |-> t + MagicExpiry, usedAt |-> Null]
            s3 == [Drawn(s1) EXCEPT !.magicTokens = @ \cup {row}]
            s2 == SendEmail(s3, "magic", ToLowerCase(email), token)
        IN  IF ~delivered
            THEN Ret(s2, RequestResult(FALSE, "Failed to send email", FALSE))
            ELSE Ret(s2, RequestResult(TRUE, "", TRUE))

\* update magic_url_tokens set usedAt where id = id
MarkMagicTokenUsed(s, t, id) ==
    [s EXCEPT !.magicTokens =
        {IF x.id = id THEN [x EXCEPT !.usedAt = t] ELSE x : x \in @}]

\* the user a magic link logs in: the existing one, or a new user whose
\* password column holds a random string
FindOrCreateUser(s, t, email) ==
    LET found == UsersByEmail(s, ToLowerCase(email)) IN
    IF found # {}
    THEN [ok |-> TRUE, s |-> s, userId |-> (CHOOSE u \in found : TRUE).id]
    ELSE
        LET userId == Fresh(s)
            s1 == Drawn(s)
            randomPassword == TwoDigits(Fresh(s1))
            newUser == [id |-> userId, email |-> ToLowerCase(email),
                        password |-> PlainText(randomPassword), updatedAt |-> t]
            ins == InsertUser(Drawn(s1), newUser)
        IN  [ok |-> ins.ok, s |-> ins.s, userId |-> userId]

\* verifyMagicUrlToken without the expiry test
verifyMagicUrlTokenNoExpiry(s, t, token, email) ==
    LET tokens == {x \in s.magicTokens :
                      x.token = token /\ x.email = ToLowerCase(email)} IN
    IF tokens = {} THEN Ret(s, AuthFailure("Invalid or expired token"))
    ELSE LET magicToken == CHOOSE x \in tokens : TRUE IN
    IF magicToken.usedAt # Null
    THEN Ret(s, AuthFailure("Token has already been used"))
    ELSE
        LET s1 == MarkMagicTokenUsed(s, t, magicToken.id)
            fc == FindOrCreateUser(s1, t, email)
        IN  IF ~fc.ok
            THEN Ret(fc.s, AuthFailure("Failed to verify magic URL token"))
            ELSE LET cs == createSession(fc.s, t, fc.userId)
                 IN  Ret(cs.s, AuthResult(TRUE, "", fc.userId, cs.session.id))

verifyMagicUrlToken(s, t, token, email) ==
    IF ~MagicUrlFeatureEnabled
    THEN Ret(s, AuthFailure("Magic URL authentication is not enabled"))
    ELSE LET tokens == {x \in s.magicTokens :
                           x.token = token /\ x.email = ToLowerCase(email)} IN
    IF tokens = {} THEN Ret(s, AuthFailure("Invalid or expired token"))
    ELSE LET magicToken == CHOOSE x \in tokens : TRUE IN
    IF t > magicToken.expiresAt THEN Ret(s, AuthFailure("Token has expired"))
    ELSE IF magicToken.usedAt # Null
    THEN Ret(s, AuthFailure("Token has already been used"))
    ELSE
        LET s1 == MarkMagicTokenUsed(s, t, magicToken.id)
            fc == FindOrCreateUser(s1, t, email)
        IN  IF ~fc.ok
            THEN Ret(fc.s, AuthFailure("Failed to verify magic URL token"))
            ELSE LET cs == createSession(fc.s, t, fc.userId)
                 IN  Ret(cs.s, AuthResult(TRUE, "", fc.userId, cs.session.id))

(***************************************************************************)
(* Account verification:                                                   *)
(*   packages/nextauth-simple/src/features/rbac/db/schema.ts, lines 23-417 *)
(***************************************************************************)
VerificationFeatureEnabled == TRUE

StatusOf(s, userId) == {x \in s.verifStatus : x.userId = userId}

\* getUserVerificationStatus(...).status.verified
IsVerified(s, userId) ==
    \E x \in StatusOf(s, userId) : x.verified

requestVerification(s, t, userId, email, delivered) ==
    IF ~VerificationFeatureEnabled
    THEN Ret(s, RequestResult(FALSE, "Account verification is not enabled", FALSE))
    ELSE IF ~ValidEmail(email)
    THEN Ret(s, RequestResult(FALSE, "Invalid email address", FALSE))
    ELSE IF UsersById(s, userId) = {}
    THEN Ret(s, RequestResult(FALSE, "User not found", FALSE))
    ELSE IF IsVerified(s, userId)
    THEN Ret(s, RequestResult(FALSE, "Account is already verified", FALSE))
    ELSE
        LET token == Fresh(s)
            s1 == Drawn(s)
            row == [id |-> Fresh(s1), userId |-> userId, token |-> token,
                    expiresAt |-> t + VerificationExpiry, usedAt |-> Null]
            s3 == [Drawn(s1) EXCEPT !.verifTokens =
                        {x \in @ : x.userId # userId} \cup {row}]
            s2 == SendEmail(s3, "verification", ToLowerCase(email), token)
        IN  IF ~delivered
            THEN Ret(s2, RequestResult(FALSE, "Failed to send email", FALSE))
            ELSE Ret(s2, RequestResult(TRUE, "", TRUE))

\* insert or update the user's row of user_verification_status
SetVerified(s, t, userId, method) ==
    LET row == [userId |-> userId, verified |-> TRUE, verifiedAt |-> t,
                verificationMethod |-> method]
    IN  [s EXCEPT !.verifStatus = {x \in @ : x.userId # userId} \cup {row}]

AccountResult(success, error, verified) ==
    [success |-> success, error |-> error, verified |-> verified]

verifyAccount(s, t, token, email) ==
    IF ~VerificationFeatureEnabled
    THEN Ret(s, AccountResult(FALSE, "Account verification is not enabled", FALSE))
    ELSE LET found == UsersByEmail(s, ToLowerCase(email)) IN
    IF found = {} THEN Ret(s, AccountResult(FALSE, "User not found", FALSE))
    ELSE LET user == CHOOSE u \in found : TRUE
             tokens == {x \in s.verifTokens :
                           x.token = token /\ x.userId = user.id} IN
    IF tokens = {} THEN Ret(s, AccountResult(FALSE, "Invalid token", FALSE))
    ELSE LET verificationToken == CHOOSE x \in tokens : TRUE IN
    IF t > verificationToken.expiresAt
    THEN Ret(s, AccountResult(FALSE, "Token has expired", FALSE))
    ELSE IF verificationToken.usedAt # Null
    THEN Ret(s, AccountResult(FALSE, "Token has already been used", FALSE))
    ELSE
        LET s1 == [s EXCEPT !.verifTokens =
                      {IF x.id = verificationToken.id
                       THEN [x EXCEPT !.usedAt = t] ELSE x : x \in @}]
        IN  Ret(SetVerified(s1, t, user.id, "email"), AccountResult(TRUE, "", TRUE))

(***************************************************************************)
(* Actions of the token features.  The run starts with alice and bob       *)
(* registered and logged out.                                              *)
(***************************************************************************)
EmailCarol == <<"c", "@", "x", ".", "y">>
Password3 == <<"n", "e", "w", "s", "e", "c", "r", "e", "t">>

TokenEmails == {EmailAlice, EmailAliceUpper, EmailBob, EmailCarol, EmailNoAt}
\* the emails a link that was mailed can carry
LinkEmails == {EmailAlice, EmailAliceUpper, EmailBob, EmailCarol}
NewPasswords == {Password3, PasswordShort}

\* tokens a caller may present: every one ever mailed, and one never issued
TokenInputs(purpose) ==
    {m.token : m \in {x \in outbox : x.purpose = purpose}} \cup {UnknownToken}

TokensCap == RegisteredState.nextUuid + TokenDraws

RequestPasswordReset ==
    \E email \in TokenEmails, delivered \in BOOLEAN :
        /\ nextUuid < TokensCap
        /\ Do("requestPasswordReset", [email |-> email, delivered |-> delivered],
              requestPasswordReset(State, now, email, delivered))

VerifyPasswordResetToken ==
    \E token \in TokenInputs("reset"), email \in LinkEmails :
        Do("verifyPasswordResetToken", [token |-> token, email |-> email],
           verifyPasswordResetToken(State, now, token, email))

CompletePasswordReset ==
    \E token \in TokenInputs("reset"), email \in LinkEmails,
       password \in NewPasswords :
        Do("completePasswordReset",
           [token |-> token, email |-> email, password |-> password],
           completePasswordReset(State, now, token, email, password))

CreateMagicUrlLogin ==
    \E email \in TokenEmails, delivered \in BOOLEAN :
        /\ nextUuid < TokensCap
        /\ Do("createMagicUrlLogin", [email |-> email, delivered |-> delivered],
              createMagicUrlLogin(State, now, email, delivered))

VerifyMagicUrlToken ==
    \E token \in TokenInputs("magic"), email \in LinkEmails :
        Do("verifyMagicUrlToken", [token |-> token, email |-> email],
           verifyMagicUrlToken(State, now, token, email))

RequestVerification ==
    \E userId \in {u.id : u \in users} \cup {UnknownUserId},
       email \in {EmailAlice, EmailNoAt}, delivered \in BOOLEAN :
        /\ nextUuid < TokensCap
        /\ Do("requestVerification",
              [userId |-> userId, email |-> email, delivered |-> delivered],
              requestVerification(State, now, userId, email, delivered))

VerifyAccount ==
    \E token \in TokenInputs("verification"), email \in LinkEmails :
        Do("verifyAccount", [token |-> token, email |-> email],
           verifyAccount(State, now, token, email))

InitTokens == InitWith(RegisteredState)

NextTokens ==
    \/ RequestPasswordReset
    \/ VerifyPasswordResetToken
    \/ CompletePasswordReset
    \/ CreateMagicUrlLogin
    \/ VerifyMagicUrlToken
    \/ RequestVerification
    \/ VerifyAccount
    \/ GetServerSession
    \/ Tick

SpecTokens == InitTokens /\ [][NextTokens]_vars

(***************************************************************************)
(* Concurrent requests.  Each handler is an async function: every awaited  *)
(* storage call is one step, and the steps of two requests interleave.     *)
(* A request keeps what it has read in its own locals.                     *)
(***************************************************************************)
Procs == {1, 2}

EmailCarolUpper == <<"C", "@", "x", ".", "y">>

NoResult == AuthFailure("")

Request(op, pc, email, password, token, userId, code) ==
    [op |-> op, pc |-> pc, email |-> email, password |-> password,
     token |-> token, userId |-> userId, code |-> code,
     rowId |-> Null, codes |-> <<>>, passedCheck |-> FALSE, result |-> NoResult]

IdleRequest == Request("idle", "idle", <<>>, <<>>, NoToken, Null, <<>>)

Goto(s, p, pc) == [s |-> s, p |-> [p EXCEPT !.pc = pc]]
Return(s, p, r) == [s |-> s, p |-> [p EXCEPT !.pc = "done", !.result = r]]

\* the last step of every login: createSession and the return
CreateSessionStep(s, t, p) ==
    LET cs == createSession(s, t, p.userId)
    IN  Return(cs.s, p, AuthResult(TRUE, "", p.userId, cs.session.id))

registerUserStep(s, t, p) ==
    CASE p.pc = "findUser" ->
            LET v == validateRegistrationInput(p.email, p.password) IN
            IF ~v.valid THEN Return(s, p, AuthFailure(v.error))
            ELSE IF UsersByEmail(s, ToLowerCase(p.email)) # {}
            THEN Return(s, p, AuthFailure("User already exists"))
            ELSE Goto(s, [p EXCEPT !.passedCheck = TRUE], "insertUser")
      [] p.pc = "insertUser" ->
            LET userId == Fresh(s)
                newUser == [id |-> userId, email |-> ToLowerCase(p.email),
                            password |-> hashPassword(p.password, BcryptWorkFactor),
                            updatedAt |-> t]
                ins == InsertUser(Drawn(s), newUser)
            IN  IF ~ins.ok THEN Return(ins.s, p, AuthFailure("Registration failed"))
                ELSE Goto(ins.s, [p EXCEPT !.userId = userId], "createSession")
      [] p.pc = "createSession" -> CreateSessionStep(s, t, p)

completePasswordResetStep(s, t, p) ==
    CASE p.pc = "findUser" ->
            IF Len(p.password) = 0 \/ Len(p.password) < MinPasswordLength
            THEN Return(s, p, CompleteResult(FALSE,
                     "Password must be at least 8 characters long", FALSE))
            ELSE LET found == UsersByEmail(s, ToLowerCase(p.email)) IN
            IF found = {} THEN Return(s, p, CompleteResult(FALSE, "Invalid token", FALSE))
            ELSE Goto(s, [p EXCEPT !.userId = (CHOOSE u \in found : TRUE).id],
                      "findToken")
      [] p.pc = "findToken" ->
            LET tokens == {x \in s.resetTokens :
                              x.token = p.token /\ x.userId = p.userId} IN
            IF tokens = {} THEN Return(s, p, CompleteResult(FALSE, "Invalid token", FALSE))
            ELSE LET resetToken == CHOOSE x \in tokens : TRUE IN
            IF t > resetToken.expiresAt
            THEN Return(s, p, CompleteResult(FALSE, "Token has expired", FALSE))
            ELSE IF resetToken.usedAt # Null
            THEN Return(s, p, CompleteResult(FALSE, "Token has already been used", FALSE))
            ELSE Goto(s, p, "updatePassword")
      [] p.pc = "updatePassword" ->
            Goto(UpdatePassword(s, t, p.userId,
                                hashPassword(p.password, BcryptWorkFactor)),
                 p, "markUsed")
      [] p.pc = "markUsed" ->
            Return(MarkResetTokenUsed(s, t, p.token), p, CompleteResult(TRUE, "", TRUE))

verifyMagicUrlTokenStep(s, t, p) ==
    CASE p.pc = "findToken" ->
            LET tokens == {x \in s.magicTokens :
                              x.token = p.token /\ x.email = ToLowerCase(p.email)} IN
            IF tokens = {} THEN Return(s, p, AuthFailure("Invalid or expired token"))
            ELSE LET magicToken == CHOOSE x \in tokens : TRUE IN
            IF t > magicToken.expiresAt
            THEN Return(s, p, AuthFailure("Token has expired"))
            ELSE IF magicToken.usedAt # Null
            THEN Return(s, p, AuthFailure("Token has already been used"))
            ELSE Goto(s, [p EXCEPT !.rowId = magicToken.id], "markUsed")
      [] p.pc = "markUsed" -> Goto(MarkMagicTokenUsed(s, t, p.rowId), p, "findUser")
      [] p.pc = "findUser" ->
            LET found == UsersByEmail(s, ToLowerCase(p.email)) IN
            IF found # {}
            THEN Goto(s, [p EXCEPT !.userId = (CHOOSE u \in found : TRUE).id],
                      "createSession")
            ELSE Goto(s, p, "insertUser")
      [] p.pc = "insertUser" ->
            LET fc == FindOrCreateUser(s, t, p.email) IN
            IF UsersByEmail(s, ToLowerCase(p.email)) # {} \/ ~fc.ok
            THEN Return(s, p, AuthFailure("Failed to verify magic URL token"))
            ELSE Goto(fc.s, [p EXCEPT !.userId = fc.userId], "createSession")
      [] p.pc = "createSession" -> CreateSessionStep(s, t, p)

verifyAccountStep(s, t, p) ==
    CASE p.pc = "findUser" ->
            LET found == UsersByEmail(s, ToLowerCase(p.email)) IN
            IF found = {} THEN Return(s, p, AccountResult(FALSE, "User not found", FALSE))
            ELSE Goto(s, [p EXCEPT !.userId = (CHOOSE u \in found : TRUE).id],
                      "findToken")
      [] p.pc = "findToken" ->
            LET tokens == {x \in s.verifTokens :
                              x.token = p.token /\ x.userId = p.userId} IN
            IF tokens = {} THEN Return(s, p, AccountResult(FALSE, "Invalid token", FALSE))
            ELSE LET verificationToken == CHOOSE x \in tokens : TRUE IN
            IF t > verificationToken.expiresAt
            THEN Return(s, p, AccountResult(FALSE, "Token has expired", FALSE))
            ELSE IF verificationToken.usedAt # Null
            THEN Return(s, p, AccountResult(FALSE, "Token has already been used", FALSE))
            ELSE Goto(s, [p EXCEPT !.rowId = verificationToken.id], "markUsed")
      [] p.pc = "markUsed" ->
            Goto([s EXCEPT !.verifTokens =
                    {IF x.id = p.rowId THEN [x EXCEPT !.usedAt = t] ELSE x : x \in @}],
                 p, "findStatus")
      [] p.pc = "findStatus" ->
            Goto(s, p, IF StatusOf(s, p.userId) = {} THEN "insertStatus"
                       ELSE "updateStatus")
      [] p.pc = "insertStatus" ->
            \* user_id is the primary key: a second insert throws
            IF StatusOf(s, p.userId) # {}
            THEN Return(s, p, AccountResult(FALSE, "Failed to verify account", FALSE))
            ELSE Return(SetVerified(s, t, p.userId, "email"), p,
                        AccountResult(TRUE, "", TRUE))
      [] p.pc = "updateStatus" ->
            Return([s EXCEPT !.verifStatus =
                      {IF x.userId = p.userId
                       THEN [x EXCEPT !.verified = TRUE, !.verifiedAt = t,
                                      !.verificationMethod = "email"]
                       ELSE x : x \in @}],
                   p, AccountResult(TRUE, "", TRUE))

\* where verifyTwoFactorCode goes once the code is accepted
AfterCodeAccepted(p) == IF p.token # NoToken THEN "deleteChallenge" ELSE "findUser"

completeTwoFactorLoginStep(s, t, p) ==
    CASE p.pc = "findChallenge" ->
            LET found == {c \in s.challenges :
                             c.userId = p.userId /\ c.token = p.token} IN
            IF found = {} THEN Return(s, p, AuthFailure("Invalid challenge token"))
            ELSE IF t > (CHOOSE c \in found : TRUE).expiresAt
            THEN Return(s, p, AuthFailure("Challenge token expired"))
            ELSE Goto(s, p, "findSetup")
      [] p.pc = "findSetup" ->
            IF SetupsOf(s, p.userId) = {}
            THEN Return(s, p, AuthFailure("Two-factor authentication is not set up"))
            ELSE LET setup == CHOOSE x \in SetupsOf(s, p.userId) : TRUE IN
            IF ~setup.enabled
            THEN Return(s, p, AuthFailure("Two-factor authentication is not enabled"))
            ELSE IF verifyTotpToken(setup.secret, p.code, t)
            THEN Goto(s, p, AfterCodeAccepted(p))
            ELSE LET hashedCodes == setup.backupCodes
                     recoveryCodeIndex == verifyRecoveryCode(p.code, hashedCodes)
                 IN
            IF recoveryCodeIndex >= 0
            THEN Goto(s, [p EXCEPT !.codes =
                            [hashedCodes EXCEPT ![recoveryCodeIndex + 1] = UsedMarker]],
                      "markCode")
            ELSE Return(s, p, AuthFailure("Invalid verification code"))
      [] p.pc = "markCode" ->
            Goto([s EXCEPT !.usersTwoFactor =
                    {IF x.userId = p.userId
                     THEN [x EXCEPT !.backupCodes = p.codes] ELSE x : x \in @}],
                 p, AfterCodeAccepted(p))
      [] p.pc = "deleteChallenge" -> Goto(CleanUpChallenge(s, p.token), p, "findUser")
      [] p.pc = "findUser" ->
            IF UsersById(s, p.userId) = {}
            THEN Return(s, p, AuthFailure("User not found"))
            ELSE Goto(s, p, "createSession")
      [] p.pc = "createSession" -> CreateSessionStep(s, t, p)

(***************************************************************************)
(* The interleaved run starts after alice (enrolled in two-factor) has     *)
(* asked for a password reset, alice and carol have each asked for a magic *)
(* link, and alice has been sent a two-factor challenge.                   *)
(***************************************************************************)
AliceId == UserIdOf(EnrolledState, EmailAlice)

WithResetToken == requestPasswordReset(EnrolledState, 0, EmailAlice, TRUE).s
WithMagicAlice == createMagicUrlLogin(WithResetToken, 0, EmailAlice, TRUE).s
WithMagicCarol == createMagicUrlLogin(WithMagicAlice, 0, EmailCarol, TRUE).s
WithVerification ==
    requestVerification(WithMagicCarol, 0, UserIdOf(EnrolledState, EmailBob),
                        EmailBob, TRUE).s
ConcurrentState == createTwoFactorChallenge(WithVerification, 0, AliceId).s

ResetTokenOfAlice == (CHOOSE x \in ConcurrentState.resetTokens : TRUE).token
MagicTokenOf(email) ==
    (CHOOSE x \in ConcurrentState.magicTokens : x.email = email).token
ChallengeOfAlice == (CHOOSE x \in ConcurrentState.challenges : TRUE).token
VerificationTokenOfBob == (CHOOSE x \in ConcurrentState.verifTokens : TRUE).token

ConcurrentRequests ==
    {Request("registerUser", "findUser", email, Password1, NoToken, Null, <<>>) :
        email \in {EmailAlice, EmailCarol, EmailCarolUpper}}
    \cup {Request("completePasswordReset", "findUser", EmailAlice, password,
                  ResetTokenOfAlice, Null, <<>>) : password \in {Password2, Password3}}
    \cup {Request("verifyMagicUrlToken", "findToken", email, <<>>,
                  MagicTokenOf(email), Null, <<>>) : email \in {EmailAlice, EmailCarol}}
    \cup {Request("verifyAccount", "findUser", EmailBob, <<>>,
                  VerificationTokenOfBob, Null, <<>>)}
    \cup {Request("completeTwoFactorLogin",
                  IF token # NoToken THEN "findChallenge" ELSE "findSetup",
                  <<>>, <<>>, token, AliceId, code) :
            token \in {NoToken, ChallengeOfAlice},
            code \in {WrongCode, TotpGenerate(SecretOf(EnrolledState, AliceId), 0)}}

StartRequest ==
    \E i \in Procs, request \in ConcurrentRequests :
        /\ procs[i].op = "idle"
        /\ procs' = [procs EXCEPT ![i] = request]
        /\ UNCHANGED <<now, users, sessions, cookie, nextUuid, usersTwoFactor,
                       challenges, resetTokens, magicTokens, verifTokens,
                       verifStatus, outbox, roles, userRoles, permissionCache,
                       auditLogs, socialAccounts, oauthStates, call, result>>

\* request i takes its next step
Advance(i, out) ==
    /\ Commit(out.s)
    /\ procs' = [procs EXCEPT ![i] = out.p]
    /\ UNCHANGED <<now, call, result>>

Running(i, op) == procs[i].op = op /\ procs[i].pc # "done"

RegisterUserStep ==
    \E i \in Procs :
        /\ Running(i, "registerUser")
        /\ Advance(i, registerUserStep(State, now, procs[i]))

CompletePasswordResetStep ==
    \E i \in Procs :
        /\ Running(i, "completePasswordReset")
        /\ Advance(i, completePasswordResetStep(State, now, procs[i]))

VerifyMagicUrlTokenStep ==
    \E i \in Procs :
        /\ Running(i, "verifyMagicUrlToken")
        /\ Advance(i, verifyMagicUrlTokenStep(State, now, procs[i]))

CompleteTwoFactorLoginStep ==
    \E i \in Procs :
        /\ Running(i, "completeTwoFactorLogin")
        /\ Advance(i, completeTwoFactorLoginStep(State, now, procs[i]))

VerifyAccountStep ==
    \E i \in Procs :
        /\ Running(i, "verifyAccount")
        /\ Advance(i, verifyAccountStep(State, now, procs[i]))

InitConcurrent ==
    /\ InitDb(ConcurrentState)
    /\ procs = [i \in Procs |-> IdleRequest]

NextConcurrent ==
    \/ StartRequest
    \/ RegisterUserStep
    \/ CompletePasswordResetStep
    \/ VerifyMagicUrlTokenStep
    \/ VerifyAccountStep
    \/ CompleteTwoFactorLoginStep
    \/ Tick

SpecConcurrent == InitConcurrent /\ [][NextConcurrent]_vars

(***************************************************************************)
(* Properties.                                                             *)
(***************************************************************************)
\* a step that is one call of handler `op`
Step(op) == call'.op = op /\ now' = now

DbUnchanged ==
    UNCHANGED <<users, sessions, cookie, nextUuid, usersTwoFactor, challenges,
                resetTokens, magicTokens, verifTokens, verifStatus, outbox, roles,
                userRoles, permissionCache, auditLogs, socialAccounts, oauthStates>>

OneUserPerEmail ==
    \A u1, u2 \in users :
        ToLowerCase(u1.email) = ToLowerCase(u2.email) => u1 = u2

EmailTaken(email) ==
    \E u \in users : ToLowerCase(u.email) = ToLowerCase(email)

(* C7, as stated: the users table holds at most one user per lower-cased   *)
(* email, and every registerUser call whose email equals an existing       *)
(* user's email up to letter case fails with 'User already exists' and     *)
(* creates neither a user nor a session.                                   *)
C7_AnyDuplicateIsRejectedAsDuplicate ==
    [][(Step("registerUser") /\ EmailTaken(call'.input.email))
        => /\ result'.error = "User already exists"
           /\ users' = users /\ sessions' = sessions]_vars

(* C7, amended: the users table holds at most one user per lower-cased     *)
(* email; a registerUser call whose email equals an existing user's email  *)
(* up to letter case creates neither a user nor a session and fails, with  *)
(* 'User already exists' when its password has at least 8 characters and   *)
(* with the password-length error otherwise.                               *)
C7_UniqueEmailAndDuplicateRejected ==
    /\ []OneUserPerEmail
    /\ [][(Step("registerUser") /\ EmailTaken(call'.input.email))
          => /\ ~result'.success
             /\ users' = users /\ sessions' = sessions
             /\ result'.error =
                  IF Len(call'.input.password) >= MinPasswordLength
                  THEN "User already exists"
                  ELSE "Password must be at least 8 characters long"]_vars

\* a registration under another letter case of a registered email was refused
C7_Witness ==
    /\ call.op = "registerUser"
    /\ call.input.email = EmailAliceUpper
    /\ result.error = "User already exists"
    /\ \E u \in users : u.email = EmailAlice

\* the user with this email has an enabled enrollment and this password
EnabledAndCorrect(email, password) ==
    \E u \in users :
        /\ u.email = ToLowerCase(email)
        /\ comparePassword(password, u.password)
        /\ \E x \in usersTwoFactor : x.userId = u.id /\ x.enabled

(* C1: for a user whose enrollment is Enabled, loginUserWithTwoFactor with *)
(* the correct email and password returns a challenge-required result and  *)
(* creates no session: it adds no row to the sessions table and sets no    *)
(* session cookie.                                                         *)
C1_ChallengeInsteadOfSession ==
    [][(/\ Step("loginUserWithTwoFactor")
        /\ EnabledAndCorrect(call'.input.email, call'.input.password))
        => /\ result'.success
           /\ result'.requiresTwoFactor
           /\ result'.challengeToken # Null
           /\ sessions' = sessions
           /\ cookie' = cookie]_vars

\* a challenge of this user that can still be redeemed
LiveChallenge(userId, token) ==
    \E c \in challenges :
        c.userId = userId /\ c.token = token /\ now <= c.expiresAt

\* the code is the authenticator's current code for the user's enrollment
CorrectTotp(userId, code) ==
    \E x \in usersTwoFactor :
        x.userId = userId /\ x.enabled /\ verifyTotpToken(x.secret, code, now)

(* C2: completeTwoFactorLogin creates a session for user U only if the     *)
(* call presents a challenge token issued for U that is unexpired and not  *)
(* yet redeemed; a call with a correct code and no challenge token, or     *)
(* with another user's challenge token, creates no session.  Stated for    *)
(* the calls whose code is a correct authenticator code.                   *)
C2_SessionNeedsChallenge ==
    [][(/\ Step("completeTwoFactorLogin")
        /\ CorrectTotp(call'.input.userId, call'.input.code)
        /\ sessions' # sessions)
        => /\ LiveChallenge(call'.input.userId, call'.input.challengeToken)
           /\ \A x \in sessions' \ sessions : x.userId = call'.input.userId]_vars

\* the code is one of the stored, unused recovery codes of the enrollment
UnusedRecoveryCode(setup, code) ==
    \E i \in DOMAIN setup.backupCodes :
        /\ setup.backupCodes[i] # UsedMarker
        /\ comparePassword(code, setup.backupCodes[i])

(* C3: verifyTwoFactorCode succeeds for user U only if the code is a       *)
(* currently valid TOTP code for U's secret or one of U's unused recovery  *)
(* codes; for any other code it fails with 'Invalid verification code' and *)
(* leaves the enrollment, the recovery codes and the challenge unchanged.  *)
(* Stated for the calls that reach the code check: U's enrollment is       *)
(* enabled and the challenge token is absent or live.                      *)
C3_OnlyValidCodesVerify ==
    [][(/\ Step("verifyTwoFactorCode")
        /\ \/ call'.input.challengeToken = NoToken
           \/ LiveChallenge(call'.input.userId, call'.input.challengeToken))
        => \A setup \in usersTwoFactor :
              (/\ setup.userId = call'.input.userId
               /\ setup.enabled
               /\ ~verifyTotpToken(setup.secret, call'.input.code, now)
               /\ ~UnusedRecoveryCode(setup, call'.input.code))
              => /\ ~result'.success
                 /\ result'.error = "Invalid verification code"
                 /\ usersTwoFactor' = usersTwoFactor
                 /\ challenges' = challenges]_vars

WrongPassword(email, password) ==
    \E u \in users : u.email = ToLowerCase(email) /\ ~comparePassword(password, u.password)

WellFormedLogin(input) ==
    Includes(input.email, "@") /\ Len(input.password) > 0

(* C9: for a well-formed email and a non-empty password, loginUser returns *)
(* the same failure ('Invalid email or password') whether no user has the  *)
(* email or the user exists and the password is wrong, and in both cases   *)
(* creates no session and sets no cookie.                                  *)
C9_LoginFailureIsUniform ==
    [][(/\ Step("loginUser")
        /\ WellFormedLogin(call'.input)
        /\ \/ ~EmailTaken(call'.input.email)
           \/ WrongPassword(call'.input.email, call'.input.password))
        => /\ result' = AuthFailure("Invalid email or password")
           /\ DbUnchanged]_vars

\* a wrong password for a registered email was refused
C9_Witness ==
    /\ call.op = "loginUser"
    /\ WrongPassword(call.input.email, call.input.password)
    /\ call.input.email = EmailAliceUpper
    /\ result.error = "Invalid email or password"

IsResolve(op) == op \in {"getSessionFromCookie", "getServerSession"}

SessionsOf(token) == {x \in sessions : x.token = token}

(* C10: session resolution returns null and changes nothing when no        *)
(* session row has the token; deletes the row and returns null when the    *)
(* session's expiresAt is earlier than now; and otherwise returns the      *)
(* session with its user and leaves the sessions table unchanged.          *)
C10_SessionResolution ==
    [][(IsResolve(call'.op) /\ now' = now) =>
        LET token == call'.input.token IN
        IF SessionsOf(token) = {}
        THEN result' = NoSession /\ DbUnchanged
        ELSE \A x \in SessionsOf(token) :
                IF x.expiresAt < now
                THEN /\ result' = NoSession
                     /\ sessions' = sessions \ {x}
                ELSE /\ result'.found
                     /\ result'.id = x.id
                     /\ result'.userId = x.userId
                     /\ result'.expiresAt = x.expiresAt
                     /\ \E u \in users : u.id = x.userId /\ u.email = result'.email
                     /\ DbUnchanged]_vars

\* an expired session was read and deleted: the cookie still names it
C10_Witness ==
    /\ IsResolve(call.op)
    /\ call.input.token = cookie
    /\ cookie # NoCookie
    /\ SessionsOf(cookie) = {}
    /\ result = NoSession

(***************************************************************************)
(* Single-use tokens (sequential runs).                                    *)
(***************************************************************************)
RedeemOps == {"completePasswordReset", "verifyMagicUrlToken", "verifyAccount"}

AlreadyUsed == "Token has already been used"

\* the stored rows a redemption call `c` names by its subject and token
Presented(c, us, resets, magics, verifs) ==
    CASE c.op \in {"completePasswordReset", "verifyPasswordResetToken"} ->
            {x \in resets : /\ x.token = c.input.token
                            /\ \E u \in us : /\ u.id = x.userId
                                             /\ u.email = ToLowerCase(c.input.email)}
      [] c.op = "verifyMagicUrlToken" ->
            {x \in magics : /\ x.token = c.input.token
                            /\ x.email = ToLowerCase(c.input.email)}
      [] c.op = "verifyAccount" ->
            {x \in verifs : /\ x.token = c.input.token
                            /\ \E u \in us : /\ u.id = x.userId
                                             /\ u.email = ToLowerCase(c.input.email)}
      [] OTHER -> {}

\* a redemption call is made
Redeems == call'.op \in RedeemOps /\ now' = now

PresentedBefore == Presented(call', users, resetTokens, magicTokens, verifTokens)
PresentedAfter == Presented(call', users', resetTokens', magicTokens', verifTokens')

\* the call's other arguments pass the handler's validation
RedeemInputValid ==
    call'.op = "completePasswordReset" =>
        Len(call'.input.password) >= MinPasswordLength

\* a successful redemption consumes an unused, unexpired token
SuccessConsumes ==
    (Redeems /\ result'.success) =>
        /\ \E x \in PresentedBefore : x.usedAt = Null /\ now <= x.expiresAt
        /\ PresentedAfter # {}
        /\ \A y \in PresentedAfter : y.usedAt # Null

\* a consumed token stays consumed for as long as it is stored
UsedStaysUsed ==
    /\ \A x \in resetTokens : \A y \in resetTokens' :
            (x.usedAt # Null /\ y.token = x.token) => y.usedAt # Null
    /\ \A x \in magicTokens : \A y \in magicTokens' :
            (x.usedAt # Null /\ y.token = x.token) => y.usedAt # Null
    /\ \A x \in verifTokens : \A y \in verifTokens' :
            (x.usedAt # Null /\ y.token = x.token) => y.usedAt # Null

\* a token value is issued once
TokenNeverReissued ==
    /\ \A y \in resetTokens' \ resetTokens :
            y.usedAt = Null => y.token >= nextUuid
    /\ \A y \in magicTokens' \ magicTokens :
            y.usedAt = Null => y.token >= nextUuid
    /\ \A y \in verifTokens' \ verifTokens :
            y.usedAt = Null => y.token >= nextUuid

(* C4 as stated: a token is redeemed successfully at most once, and every  *)
(* later redemption call with the same subject and token fails with the    *)
(* already-used error.                                                     *)
C4_LaterCallsFailAlreadyUsed ==
    [][/\ SuccessConsumes
       /\ UsedStaysUsed
       /\ (Redeems /\ \E x \in PresentedBefore : x.usedAt # Null)
            => (~result'.success /\ result'.error = AlreadyUsed)]_vars

(* C4: in a sequential run a password-reset, magic-link or verification    *)
(* token is redeemed successfully at most once: a successful redemption    *)
(* needs the stored token unused and unexpired and leaves it used, and a   *)
(* used token stays used.  Every later redemption call with the same       *)
(* subject and token fails and changes nothing; its error is the           *)
(* already-used error while the token is unexpired and the call's other    *)
(* input is valid, and the expired error once the token has expired.       *)
C4_RedeemedAtMostOnce ==
    [][/\ SuccessConsumes
       /\ UsedStaysUsed
       /\ TokenNeverReissued
       /\ (Redeems /\ \E x \in PresentedBefore : x.usedAt # Null)
            => /\ ~result'.success
               /\ DbUnchanged
               /\ \A x \in PresentedBefore :
                    RedeemInputValid =>
                        result'.error = IF now > x.expiresAt
                                        THEN "Token has expired" ELSE AlreadyUsed]_vars

\* a retry of a redeemed token has just been refused
C4_Witness ==
    /\ call.op \in RedeemOps
    /\ result.error = AlreadyUsed
    /\ \E x \in Presented(call, users, resetTokens, magicTokens, verifTokens) :
            x.usedAt # Null /\ now <= x.expiresAt

(***************************************************************************)
(* Single-use tokens (interleaved runs).                                   *)
(***************************************************************************)
\* both requests have returned, and were the same operation on one token
SameRedemption(i, j, op) ==
    /\ i # j
    /\ procs[i].op = op /\ procs[j].op = op
    /\ procs[i].pc = "done" /\ procs[j].pc = "done"
    /\ procs[i].token = procs[j].token /\ procs[i].token # NoToken

AtMostOneSucceeds(op) ==
    \A i, j \in Procs :
        SameRedemption(i, j, op) => ~(procs[i].result.success /\ procs[j].result.success)

SessionsCreated == sessions \ ConcurrentState.sessions

OneMagicSession ==
    (\E i, j \in Procs : SameRedemption(i, j, "verifyMagicUrlToken"))
        => Cardinality(SessionsCreated) <= 1

OnePasswordChange == AtMostOneSucceeds("completePasswordReset")

\* stated for correct authenticator codes
OneChallengeSession ==
    (\E i, j \in Procs :
        /\ SameRedemption(i, j, "completeTwoFactorLogin")
        /\ procs[i].code # WrongCode /\ procs[j].code # WrongCode)
        => Cardinality(SessionsCreated) <= 1

(* C5: when two redemption requests for the same valid token interleave,   *)
(* at most one succeeds: one magic-link token yields at most one session,  *)
(* one password-reset token at most one password change, one two-factor    *)
(* challenge token at most one session.                                    *)
C5_ConcurrentRedemptionOnce ==
    /\ OneMagicSession
    /\ OnePasswordChange
    /\ OneChallengeSession

(***************************************************************************)
(* Who a token authorizes.                                                 *)
(***************************************************************************)
\* the call presents a reset token issued for user u, unexpired and unused,
\* with u's email
AuthorizedReset(u) ==
    /\ Step("completePasswordReset")
    /\ ToLowerCase(call'.input.email) = u.email
    /\ \E x \in resetTokens :
        /\ x.token = call'.input.token
        /\ x.userId = u.id
        /\ x.usedAt = Null
        /\ now <= x.expiresAt

(* C6: a stored password changes only through completePasswordReset called *)
(* with an unexpired, unused reset token issued for that same user and     *)
(* with that user's email, so a token issued for one user never changes    *)
(* another's password; and verifyMagicUrlToken creates a session only for  *)
(* the user whose email is the one the token was issued to.                *)
C6_TokenAuthorizesItsOwner ==
    [][/\ \A u \in users : \A v \in users' :
            (v.id = u.id /\ v.password # u.password) => AuthorizedReset(u)
       /\ (Step("verifyMagicUrlToken") /\ sessions' # sessions)
            => \E x \in magicTokens :
                /\ x.token = call'.input.token
                /\ \A y \in sessions' \ sessions :
                    \E u \in users' : u.id = y.userId /\ u.email = x.email]_vars

\* a reset has just replaced a password, and a magic link has logged in
C6_Witness ==
    /\ call.op = "completePasswordReset"
    /\ result.success
    /\ \E u \in users : comparePassword(Password3, u.password)
    /\ \E x \in magicTokens : x.usedAt # Null

(***************************************************************************)
(* Racing registrations.                                                   *)
(***************************************************************************)
\* two finished registerUser calls for one normalized email that both
\* passed the existence check
RacedRegistration(i, j) ==
    /\ i # j
    /\ procs[i].op = "registerUser" /\ procs[j].op = "registerUser"
    /\ procs[i].pc = "done" /\ procs[j].pc = "done"
    /\ ToLowerCase(procs[i].email) = ToLowerCase(procs[j].email)
    /\ procs[i].passedCheck /\ procs[j].passedCheck

ExactlyOneRow(i, j) ==
    /\ Cardinality({u \in users : u.email = ToLowerCase(procs[i].email)}) = 1
    /\ procs[i].result.success # procs[j].result.success

(* C8: when two registerUser calls with the same normalized email both     *)
(* pass the existence check, exactly one user row is created and the       *)
(* losing call returns the duplicate-user error, the error a sequential    *)
(* duplicate registration returns.                                         *)
C8_LoserGetsDuplicateError ==
    \A i, j \in Procs :
        RacedRegistration(i, j) =>
            /\ ExactlyOneRow(i, j)
            /\ ~procs[i].result.success
                    => procs[i].result.error = "User already exists"

(***************************************************************************)
(* Expiry.                                                                 *)
(***************************************************************************)
TokenOps == RedeemOps \cup {"verifyPasswordResetToken"}

\* no stored row has its expiresAt changed
ExpiryKept(rows, rowsAfter) ==
    \A x \in rows : \A y \in rowsAfter : y.id = x.id => y.expiresAt = x.expiresAt

(* C11: once the clock has passed the expiresAt of a session or of a       *)
(* single-use token, session resolution returns null and redemption or     *)
(* verification of the token fails, in every state however it was reached; *)
(* the clock never goes back and no operation changes a stored expiresAt.  *)
C11_ExpiredStaysInvalid ==
    [][/\ now' >= now
       /\ (IsResolve(call'.op) /\ now' = now
            /\ \E x \in SessionsOf(call'.input.token) : now > x.expiresAt)
            => result' = NoSession
       /\ (call'.op \in TokenOps /\ now' = now
            /\ \E x \in PresentedBefore : now > x.expiresAt)
            => ~result'.success
       /\ ExpiryKept(sessions, sessions')
       /\ ExpiryKept(resetTokens, resetTokens')
       /\ ExpiryKept(magicTokens, magicTokens')
       /\ ExpiryKept(verifTokens, verifTokens')]_vars

\* a magic link that was never redeemed is refused after its expiry
C11_Witness ==
    /\ call.op = "verifyMagicUrlToken"
    /\ ~result.success
    /\ \E x \in Presented(call, users, resetTokens, magicTokens, verifTokens) :
            x.usedAt = Null /\ now > x.expiresAt

(***************************************************************************)
(* Logout.                                                                 *)
(***************************************************************************)
\* everything stored except the sessions table and the cookie
OtherTablesUnchanged ==
    UNCHANGED <<users, nextUuid, usersTwoFactor, challenges, resetTokens,
                magicTokens, verifTokens, verifStatus, outbox, roles, userRoles,
                permissionCache, auditLogs, socialAccounts, oauthStates>>

\* session tokens are random values: none is ever issued a second time
SessionTokensFresh == \A x \in sessions : x.token < nextUuid

(* C12: logoutUser with a session token returns success and deletes        *)
(* exactly the session holding that token, leaving every other session and *)
(* table as it was; when no session holds the token (a repeated logout) it *)
(* returns success and changes nothing stored; a token whose session is    *)
(* gone resolves to null, and no later session is given an old token.      *)
C12_LogoutRevokesOneSession ==
    /\ []SessionTokensFresh
    /\ [][/\ Step("logoutUser")
                => /\ result'.success
                   /\ sessions' = sessions \ SessionsOf(call'.input.token)
                   /\ OtherTablesUnchanged
                   /\ SessionsOf(call'.input.token) = {} => sessions' = sessions
          /\ \A y \in sessions' \ sessions : y.token >= nextUuid
          /\ (IsResolve(call'.op) /\ now' = now
                /\ SessionsOf(call'.input.token) = {})
                => result' = NoSession /\ sessions' = sessions]_vars

\* a logout has removed one session while another user's session remains
C12_Witness ==
    /\ call.op = "logoutUser"
    /\ call.input.token \notin {NoCookie, UnknownToken}
    /\ result.success
    /\ SessionsOf(call.input.token) = {}
    /\ sessions # {}

(***************************************************************************)
(* Superseded reset tokens.                                                *)
(***************************************************************************)
ResetOps == {"verifyPasswordResetToken", "completePasswordReset"}

\* reset tokens that were mailed and whose row a later request has deleted
SupersededResetTokens ==
    {m.token : m \in {x \in outbox : x.purpose = "reset"}}
        \ {x.token : x \in resetTokens}

\* the user's stored reset tokens that can still be redeemed
LiveResetTokens(userId) ==
    {x \in resetTokens : x.userId = userId /\ x.usedAt = Null /\ now <= x.expiresAt}

PasswordsUnchanged ==
    \A u \in users : \A v \in users' : v.id = u.id => v.password = u.password

(* C13: a requestPasswordReset that issues a token for a user removes the  *)
(* user's earlier reset tokens and stores the new one; from then on        *)
(* verifyPasswordResetToken and completePasswordReset with an earlier      *)
(* token fail (token not found) and change no password, while              *)
(* completePasswordReset with the newest token, the user's email and a     *)
(* valid password still succeeds.                                          *)
C13_NewRequestSupersedesOld ==
    [][/\ (Step("requestPasswordReset") /\ resetTokens' # resetTokens)
            => \E y \in resetTokens' :
                /\ y.token = nextUuid /\ y.usedAt = Null
                /\ resetTokens' = {x \in resetTokens : x.userId # y.userId} \cup {y}
       /\ (call'.op \in ResetOps /\ now' = now
            /\ call'.input.token \in SupersededResetTokens)
            => /\ ~result'.success
               /\ DbUnchanged
               /\ PasswordsUnchanged
               /\ (call'.op = "completePasswordReset" => RedeemInputValid)
                    => result'.error = "Invalid token"
       /\ (Step("completePasswordReset") /\ RedeemInputValid
            /\ \E x \in PresentedBefore : x.usedAt = Null /\ now <= x.expiresAt)
            => result'.success]_vars

\* the superseded token has just been refused while the newer one is live
C13_Witness ==
    /\ call.op = "completePasswordReset"
    /\ call.input.token \in SupersededResetTokens
    /\ call.input.password = Password3
    /\ result.error = "Invalid token"
    /\ \E u \in users :
        /\ u.email = ToLowerCase(call.input.email)
        /\ LiveResetTokens(u.id) # {}
        /\ \E m \in outbox : m.token = call.input.token /\ m.to = u.email

(* C13 as stated: after a second requestPasswordReset for the same user,   *)
(* verifyPasswordResetToken and completePasswordReset with the first token *)
(* fail as not found or expired and do not change the password.            *)
C13_OldTokenNotFoundOrExpired ==
    [][(call'.op \in ResetOps /\ now' = now
            /\ call'.input.token \in SupersededResetTokens)
            => /\ ~result'.success
               /\ result'.error \in {"Invalid token", "Token has expired"}
               /\ PasswordsUnchanged]_vars

(***************************************************************************)
(* One live token per subject and purpose.                                 *)
(***************************************************************************)
Live(x) == x.usedAt = Null /\ now <= x.expiresAt

OneLiveResetToken ==
    \A x, y \in resetTokens : (Live(x) /\ Live(y) /\ x.userId = y.userId) => x = y

OneLiveVerificationToken ==
    \A x, y \in verifTokens : (Live(x) /\ Live(y) /\ x.userId = y.userId) => x = y

OneLiveMagicToken ==
    \A x, y \in magicTokens : (Live(x) /\ Live(y) /\ x.email = y.email) => x = y

\* a challenge row has no used marker: it is deleted when redeemed
OneLiveChallenge ==
    \A x, y \in challenges :
        (now <= x.expiresAt /\ now <= y.expiresAt /\ x.userId = y.userId) => x = y

(* C14: in every reachable state each subject has at most one live         *)
(* (unexpired, unredeemed) token per purpose: password reset,              *)
(* verification, magic link and two-factor challenge.                      *)
C14_OneLiveTokenPerSubject ==
    /\ OneLiveResetToken
    /\ OneLiveVerificationToken
    /\ OneLiveMagicToken
    /\ OneLiveChallenge

(***************************************************************************)
(* Redeem-then-act.                                                        *)
(***************************************************************************)
\* the user's password is no longer the one stored when the run started
PasswordOverwritten(userId) ==
    \E u \in users : \E v \in ConcurrentState.users :
        u.id = userId /\ v.id = userId /\ u.password # v.password

\* a verifyMagicUrlToken request for the token has created its session
MagicSessionCreated(token) ==
    \E i \in Procs :
        /\ procs[i].op = "verifyMagicUrlToken"
        /\ procs[i].token = token
        /\ procs[i].result.success
        /\ \E y \in sessions : y.id = procs[i].result.sessionId

ResetUsedIffApplied ==
    \A x \in resetTokens : (x.usedAt # Null) <=> PasswordOverwritten(x.userId)

MagicUsedIffApplied ==
    \A x \in magicTokens : (x.usedAt # Null) <=> MagicSessionCreated(x.token)

VerificationUsedIffApplied ==
    \A x \in verifTokens : (x.usedAt # Null) <=> IsVerified(State, x.userId)

(* C15: in every reachable state, the states between two storage writes of *)
(* a request included, a token is marked used if and only if the action it *)
(* authorises has been applied: the password overwritten, the session      *)
(* created, the account marked verified.                                   *)
C15_UsedIffActionApplied ==
    /\ ResetUsedIffApplied
    /\ MagicUsedIffApplied
    /\ VerificationUsedIffApplied

(***************************************************************************)
(* Failed redemptions.                                                     *)
(***************************************************************************)
\* the last handler call was a redemption of `token` that failed
LastRedemptionFailed(op, token) ==
    /\ call.op = op
    /\ call.op \in RedeemOps
    /\ call.input.token = token
    /\ ~result.success

(* C16: a failed redemption is terminal for the token: when                *)
(* completePasswordReset, verifyMagicUrlToken or verifyAccount has         *)
(* returned failure for a token, the next call of that handler with the    *)
(* same token does not succeed.                                            *)
C16_FailedRedemptionIsTerminal ==
    [][(Redeems /\ LastRedemptionFailed(call'.op, call'.input.token))
            => ~result'.success]_vars

(***************************************************************************)
(* The expiry boundary.                                                    *)
(***************************************************************************)
VerifyOps == {"verifyPasswordResetToken", "verifyMagicUrlToken", "verifyAccount"}

\* a verification call that names a stored token of the right subject
VerifiesStored == call'.op \in VerifyOps /\ now' = now /\ PresentedBefore # {}

\* what the handlers compute: accepted until the clock is past expiresAt
AcceptedThroughExpiry ==
    [][VerifiesStored =>
        (result'.success <=>
            \E x \in PresentedBefore : x.usedAt = Null /\ now <= x.expiresAt)]_vars

(* C17: verifyPasswordResetToken, verifyMagicUrlToken and verifyAccount    *)
(* accept a stored token of the right subject exactly when its used marker *)
(* is null and now < expiresAt; at now = expiresAt it is rejected.         *)
C17_ValidOnlyBeforeExpiry ==
    [][VerifiesStored =>
        (result'.success <=>
            \E x \in PresentedBefore : x.usedAt = Null /\ now < x.expiresAt)]_vars

(***************************************************************************)
(* Account enumeration.                                                    *)
(***************************************************************************)
EmailSent == RequestResult(TRUE, "", TRUE)

(* C18: for any well-formed email and any outcome of the email-sending     *)
(* function, requestPasswordReset returns {success: true, emailSent: true} *)
(* whether or not a user with that email exists.                           *)
C18_ResetRequestHidesExistence ==
    [][(Step("requestPasswordReset") /\ ValidEmail(call'.input.email))
            => result' = EmailSent]_vars

\* the request names no user: by id for a verification, by email for a link
NoSuchSubject ==
    IF call'.op = "requestVerification"
    THEN UsersById(State, call'.input.userId) = {}
    ELSE UsersByEmail(State, ToLowerCase(call'.input.email)) = {}

MagicRequestHidesExistence ==
    [][(Step("createMagicUrlLogin") /\ ValidEmail(call'.input.email)
            /\ call'.input.delivered)
            => result' = EmailSent]_vars

(* C19: requestVerification and createMagicUrlLogin report success (email  *)
(* sent) when no user exists for the requested subject, as they do for an  *)
(* existing user.  Stated for well-formed emails and a mail that is sent.  *)
C19_RequestsHideExistence ==
    [][((Step("requestVerification") \/ Step("createMagicUrlLogin"))
            /\ ValidEmail(call'.input.email)
            /\ call'.input.delivered
            /\ NoSuchSubject)
            => result' = EmailSent]_vars

(***************************************************************************)
(* Recovery codes are single-use.                                          *)
(***************************************************************************)
\* the last handler call was verifyTwoFactorCode accepting this code
LastSubmissionAccepted(userId, code) ==
    /\ call.op = "verifyTwoFactorCode"
    /\ call.input.userId = userId
    /\ call.input.code = code
    /\ result.success

\* a verifyTwoFactorCode call that gets as far as the code check
ReachesCodeCheck ==
    /\ Step("verifyTwoFactorCode")
    /\ \/ call'.input.challengeToken = NoToken
       \/ LiveChallenge(call'.input.userId, call'.input.challengeToken)

(* C20: with two-factor enabled, a recovery code submitted to              *)
(* verifyTwoFactorCode succeeds while it is unused, so every other unused  *)
(* code still succeeds after one was spent; the same recovery code         *)
(* submitted again right after it was accepted fails with the invalid-code *)
(* error.                                                                  *)
C20_RecoveryCodeSingleUse ==
    [][ReachesCodeCheck =>
        \A setup \in usersTwoFactor :
            (setup.userId = call'.input.userId /\ setup.enabled)
            => /\ UnusedRecoveryCode(setup, call'.input.code) => result'.success
               /\ (/\ call'.input.code \in RecoveryCodesShown(setup.secret)
                   /\ LastSubmissionAccepted(call'.input.userId, call'.input.code))
                    => /\ ~result'.success
                       /\ result'.error = "Invalid verification code"]_vars

(***************************************************************************)
(* Two-factor enrollment.                                                  *)
(***************************************************************************)
Enrollment(userId) == {x \in usersTwoFactor : x.userId = userId}
EnrollmentAfter(userId) == {x \in usersTwoFactor' : x.userId = userId}

EnrollmentEnabled(rows) == \E x \in rows : x.enabled

\* the enrollment becomes enabled in this step
BecomesEnabled(userId) ==
    ~EnrollmentEnabled(Enrollment(userId)) /\ EnrollmentEnabled(EnrollmentAfter(userId))

(* C21: an enrollment becomes enabled only in a verifyAndEnableTwoFactor    *)
(* call for that user whose code is a valid TOTP code for the secret stored *)
(* by the latest setupTwoFactor; a call with a wrong code fails and leaves  *)
(* the pending enrollment and everything else unchanged; the secret of a    *)
(* stored enrollment never changes.                                         *)
C21_EnabledOnlyAfterValidCode ==
    [][/\ \A userId \in UserIds :
            BecomesEnabled(userId)
            => /\ Step("verifyAndEnableTwoFactor")
               /\ call'.input.userId = userId
               /\ \E x \in Enrollment(userId) :
                    /\ ~x.enabled
                    /\ verifyTotpToken(x.secret, call'.input.code, now)
       /\ (Step("verifyAndEnableTwoFactor")
            /\ \E x \in Enrollment(call'.input.userId) :
                    ~x.enabled /\ ~verifyTotpToken(x.secret, call'.input.code, now))
            => /\ ~result'.success
               /\ result'.error = "Invalid verification code"
               /\ DbUnchanged
       /\ \A x \in usersTwoFactor : \A y \in usersTwoFactor' :
            y.userId = x.userId => y.secret = x.secret]_vars

\* bob has just enabled the enrollment he set up during the run
C21_Witness ==
    /\ call.op = "verifyAndEnableTwoFactor"
    /\ result.success
    /\ call.input.userId # AliceId
    /\ EnrollmentEnabled(Enrollment(call.input.userId))

EnrollmentStatus(rows) ==
    IF rows = {} THEN "Unset"
    ELSE IF EnrollmentEnabled(rows) THEN "Enabled" ELSE "Pending"

StatusBefore(userId) == EnrollmentStatus(Enrollment(userId))
StatusAfter(userId) == EnrollmentStatus(EnrollmentAfter(userId))

\* the handler that moves an enrollment from one status to another
MovedBy(from, to) ==
    CASE to = "Unset" -> "disableTwoFactor"
      [] from = "Unset" /\ to = "Pending" -> "setupTwoFactor"
      [] from = "Pending" /\ to = "Enabled" -> "verifyAndEnableTwoFactor"
      [] OTHER -> "no handler"

(* C22: the enrollment of each user moves only Unset -> Pending by          *)
(* setupTwoFactor, Pending -> Enabled by verifyAndEnableTwoFactor, and from *)
(* any status to Unset by disableTwoFactor, which deletes the enrollment    *)
(* and every challenge of the user; setupTwoFactor on a Pending or Enabled  *)
(* enrollment and verifyAndEnableTwoFactor on an Unset or Enabled one fail  *)
(* and change nothing.                                                      *)
C22_EnrollmentStateMachine ==
    [][/\ \A userId \in UserIds :
            StatusAfter(userId) # StatusBefore(userId)
            => /\ Step(MovedBy(StatusBefore(userId), StatusAfter(userId)))
               /\ call'.input.userId = userId
       /\ Step("disableTwoFactor")
            => /\ result'.success
               /\ StatusAfter(call'.input.userId) = "Unset"
               /\ \A c \in challenges' : c.userId # call'.input.userId
       /\ (Step("setupTwoFactor") /\ StatusBefore(call'.input.userId) # "Unset")
            => ~result'.success /\ DbUnchanged
       /\ (Step("verifyAndEnableTwoFactor")
            /\ StatusBefore(call'.input.userId) # "Pending")
            => ~result'.success /\ DbUnchanged]_vars

\* alice's enabled enrollment has just been disabled, after bob's went from
\* Unset through Pending to Enabled
C22_Witness ==
    /\ call.op = "disableTwoFactor"
    /\ call.input.userId = AliceId
    /\ StatusBefore(AliceId) = "Unset"
    /\ StatusBefore(UserIdOf(EnrolledState, EmailBob)) = "Enabled"

(***************************************************************************)
(* Role-based access control.  config.features.rbac is                     *)
(* { enabled: true, defaultRole: 'user', superAdminRole: 'admin',          *)
(*   cachePermissions: true, cacheTTLSeconds: CacheTTL }.                  *)
(***************************************************************************)
RbacFeatureEnabled == TRUE
DefaultRole == "user"
SuperAdminRole == "admin"
CachePermissionsEnabled == TRUE

Wildcard == "*"

RbacDisabled == "Role-based access control is not enabled"

NoRole == [id |-> Null, name |-> "", permissions |-> <<>>]

RoleResult(success, error, role) ==
    [success |-> success, error |-> error, role |-> role]

RolesById(s, id) == {r \in s.roles : r.id = id}
RolesByName(s, name) == {r \in s.roles : r.name = name}

\* delete permissionCache[userId]
clearPermissionCache(s, userId) ==
    [s EXCEPT !.permissionCache = {c \in @ : c.userId # userId}]

\* the role id is not used: every key is deleted
clearPermissionCacheForRole(s, roleId) ==
    [s EXCEPT !.permissionCache = {}]

cachePermissions(s, t, userId, permissions) ==
    [s EXCEPT !.permissionCache =
        {c \in @ : c.userId # userId}
        \cup {[userId |-> userId, permissions |-> permissions,
               timestamp |-> t + CacheTTL]}]

\* hit: whether an array came back; an expired entry is deleted on the way
getPermissionsFromCache(s, t, userId) ==
    LET cached == {c \in s.permissionCache : c.userId = userId} IN
    IF cached = {} THEN [s |-> s, hit |-> FALSE, permissions |-> <<>>]
    ELSE LET entry == CHOOSE c \in cached : TRUE IN
    IF t > entry.timestamp
    THEN [s |-> clearPermissionCache(s, userId), hit |-> FALSE, permissions |-> <<>>]
    ELSE [s |-> s, hit |-> TRUE, permissions |-> entry.permissions]

createRole(s, name, permissions) ==
    IF ~RbacFeatureEnabled THEN Ret(s, RoleResult(FALSE, RbacDisabled, NoRole))
    ELSE IF RolesByName(s, name) # {}
    THEN Ret(s, RoleResult(FALSE, "Role with this name already exists", NoRole))
    ELSE LET role == [id |-> Fresh(s), name |-> name, permissions |-> permissions]
         IN  Ret([Drawn(s) EXCEPT !.roles = @ \cup {role}], RoleResult(TRUE, "", role))

\* updateRole that leaves the permission cache as it is
updateRoleKeepCache(s, id, name, change) ==
    IF RolesById(s, id) = {} THEN Ret(s, RoleResult(FALSE, "Role not found", NoRole))
    ELSE IF name # "" /\ \E r \in RolesByName(s, name) : r.id # id
    THEN Ret(s, RoleResult(FALSE, "Role with this name already exists", NoRole))
    ELSE LET old == CHOOSE r \in RolesById(s, id) : TRUE
             updated == [old EXCEPT
                            !.name = IF name # "" THEN name ELSE @,
                            !.permissions = IF change.given THEN change.permissions ELSE @]
         IN  Ret([s EXCEPT !.roles = (@ \ {old}) \cup {updated}],
                 RoleResult(TRUE, "", updated))

\* name "" stands for a name that is absent or empty; change.given tells
\* whether input.permissions is present (an empty array is truthy)
updateRole(s, id, name, change) ==
    IF ~RbacFeatureEnabled THEN Ret(s, RoleResult(FALSE, RbacDisabled, NoRole))
    ELSE IF RolesById(s, id) = {} THEN Ret(s, RoleResult(FALSE, "Role not found", NoRole))
    ELSE IF name # "" /\ \E r \in RolesByName(s, name) : r.id # id
    THEN Ret(s, RoleResult(FALSE, "Role with this name already exists", NoRole))
    ELSE LET old == CHOOSE r \in RolesById(s, id) : TRUE
             updated == [old EXCEPT
                            !.name = IF name # "" THEN name ELSE @,
                            !.permissions = IF change.given THEN change.permissions ELSE @]
         IN  Ret(clearPermissionCacheForRole(
                     [s EXCEPT !.roles = (@ \ {old}) \cup {updated}], id),
                 RoleResult(TRUE, "", updated))

SuccessOrError(success, error) == [success |-> success, error |-> error]

deleteRole(s, id) ==
    IF ~RbacFeatureEnabled THEN Ret(s, SuccessOrError(FALSE, RbacDisabled))
    ELSE IF RolesById(s, id) = {} THEN Ret(s, SuccessOrError(FALSE, "Role not found"))
    ELSE LET existing == CHOOSE r \in RolesById(s, id) : TRUE IN
    IF SuperAdminRole # "" /\ existing.name = SuperAdminRole
    THEN Ret(s, SuccessOrError(FALSE, "Cannot delete the super admin role"))
    ELSE IF DefaultRole # "" /\ existing.name = DefaultRole
    THEN Ret(s, SuccessOrError(FALSE, "Cannot delete the default role"))
    ELSE Ret(clearPermissionCacheForRole(
                 [s EXCEPT !.userRoles = {ur \in @ : ur.roleId # id},
                           !.roles = {r \in @ : r.id # id}], id),
             SuccessOrError(TRUE, ""))

NoUserRole == [id |-> Null, userId |-> Null, roleId |-> Null]

UserRoleResult(success, error, userRole) ==
    [success |-> success, error |-> error, userRole |-> userRole]

AssignmentsOf(s, userId, roleId) ==
    {ur \in s.userRoles : ur.userId = userId /\ ur.roleId = roleId}

\* the insert and what follows it
InsertUserRole(s, userId, roleId) ==
    LET userRole == [id |-> Fresh(s), userId |-> userId, roleId |-> roleId]
    IN  Ret(clearPermissionCache([Drawn(s) EXCEPT !.userRoles = @ \cup {userRole}],
                                 userId),
            UserRoleResult(TRUE, "", userRole))

assignRoleToUser(s, userId, roleId) ==
    IF ~RbacFeatureEnabled THEN Ret(s, UserRoleResult(FALSE, RbacDisabled, NoUserRole))
    ELSE IF UsersById(s, userId) = {}
    THEN Ret(s, UserRoleResult(FALSE, "User not found", NoUserRole))
    ELSE IF RolesById(s, roleId) = {}
    THEN Ret(s, UserRoleResult(FALSE, "Role not found", NoUserRole))
    ELSE IF AssignmentsOf(s, userId, roleId) # {}
    THEN Ret(s, UserRoleResult(FALSE, "User already has this role", NoUserRole))
    ELSE InsertUserRole(s, userId, roleId)

removeRoleFromUser(s, userId, roleId) ==
    IF ~RbacFeatureEnabled THEN Ret(s, SuccessOrError(FALSE, RbacDisabled))
    ELSE Ret(clearPermissionCache(
                 [s EXCEPT !.userRoles = @ \ AssignmentsOf(s, userId, roleId)], userId),
             SuccessOrError(TRUE, ""))

\* the rows of a select, in the order of their insertion
RECURSIVE OrderById(_)
OrderById(rows) ==
    IF rows = {} THEN <<>>
    ELSE LET first == CHOOSE r \in rows : \A x \in rows : r.id <= x.id
         IN  <<first>> \o OrderById(rows \ {first})

getUserRoles(s, userId) ==
    LET roleIds == {ur.roleId : ur \in {x \in s.userRoles : x.userId = userId}}
    IN  OrderById({r \in s.roles : r.id \in roleIds})

\* permissionSet.add(permission) for every permission of the list
RECURSIVE AddAll(_, _)
AddAll(permissionSet, list) ==
    IF list = <<>> THEN permissionSet
    ELSE AddAll(IF Includes(permissionSet, Head(list)) THEN permissionSet
                ELSE Append(permissionSet, Head(list)),
                Tail(list))

RECURSIVE CollectPermissions(_, _)
CollectPermissions(permissionSet, roleList) ==
    IF roleList = <<>> THEN permissionSet
    ELSE CollectPermissions(AddAll(permissionSet, Head(roleList).permissions),
                            Tail(roleList))

RECURSIVE ConcatPermissions(_)
ConcatPermissions(roleList) ==
    IF roleList = <<>> THEN <<>>
    ELSE Head(roleList).permissions \o ConcatPermissions(Tail(roleList))

\* every permission of every role, repeated as often as it is listed
PermissionsListed(roleList) == ConcatPermissions(roleList)

\* Array.from(permissionSet) after the two loops
PermissionsOf(roleList) == CollectPermissions(<<>>, roleList)

\* roles: <<>> also where the returned object has no roles field
UserPermissionsResult(success, error, permissions, roleList) ==
    [success |-> success, error |-> error, permissions |-> permissions,
     roles |-> roleList]

getUserPermissions(s, t, userId) ==
    IF ~RbacFeatureEnabled
    THEN Ret(s, UserPermissionsResult(FALSE, RbacDisabled, <<>>, <<>>))
    ELSE LET cached == IF CachePermissionsEnabled
                       THEN getPermissionsFromCache(s, t, userId)
                       ELSE [s |-> s, hit |-> FALSE, permissions |-> <<>>]
         IN
    IF cached.hit
    THEN Ret(cached.s, UserPermissionsResult(TRUE, "", cached.permissions, <<>>))
    ELSE LET roleList == getUserRoles(cached.s, userId)
             permissions == PermissionsOf(roleList)
         IN  Ret(IF CachePermissionsEnabled
                 THEN cachePermissions(cached.s, t, userId, permissions)
                 ELSE cached.s,
                 UserPermissionsResult(TRUE, "", permissions, roleList))

PermissionCheckResult(success, error, hasPermission) ==
    [success |-> success, error |-> error, hasPermission |-> hasPermission]

checkUserPermission(s, t, userId, permission) ==
    IF ~RbacFeatureEnabled
    THEN Ret(s, PermissionCheckResult(FALSE, RbacDisabled, FALSE))
    ELSE LET cached == IF CachePermissionsEnabled
                       THEN getPermissionsFromCache(s, t, userId)
                       ELSE [s |-> s, hit |-> FALSE, permissions |-> <<>>]
         IN
    IF cached.hit
    THEN Ret(cached.s, PermissionCheckResult(TRUE, "",
                           Includes(cached.permissions, permission)))
    ELSE LET got == getUserPermissions(cached.s, t, userId) IN
    IF ~got.r.success THEN Ret(got.s, PermissionCheckResult(FALSE, got.r.error, FALSE))
    ELSE Ret(got.s, PermissionCheckResult(TRUE, "",
                        Includes(got.r.permissions, permission)))

initializeDefaultRoles(s) ==
    IF ~RbacFeatureEnabled THEN Ret(s, SuccessOrError(FALSE, RbacDisabled))
    ELSE IF s.roles # {} THEN Ret(s, SuccessOrError(TRUE, ""))
    ELSE LET adminRole == [id |-> Fresh(s), name |-> "admin",
                           permissions |-> <<Wildcard>>]
             userRole == [id |-> Fresh(s) + 1, name |-> "user",
                          permissions |-> <<"profile:read", "profile:update">>]
         IN  Ret([Drawn(Drawn(s)) EXCEPT !.roles = @ \cup {adminRole, userRole}],
                 SuccessOrError(TRUE, ""))

\* two registered users and the default roles
RbacState == initializeDefaultRoles(RegisteredState).s

RoleIdOf(s, name) == (CHOOSE r \in s.roles : r.name = name).id
AdminRoleId == RoleIdOf(RbacState, SuperAdminRole)
UserRoleId == RoleIdOf(RbacState, DefaultRole)
UnknownRoleId == MaxUuid + 102

RoleNames == {"admin", "editor"}
PermissionLists == {<<"profile:read", "content:write", "content:write">>}
\* what updateRole is asked to change: the name or the permissions
RoleUpdates ==
    {[name |-> "editor", change |-> [given |-> FALSE, permissions |-> <<>>]]}
    \cup {[name |-> "", change |-> [given |-> TRUE, permissions |-> list]] :
            list \in PermissionLists}
PermissionsAsked == {"content:write", "content:delete"}
RoleIds == {r.id : r \in roles} \cup {UnknownRoleId}
RoleHolder == UserIdOf(RbacState, EmailAlice)
Assignees == {RoleHolder, UnknownUserId}
Readers == {RoleHolder, UserIdOf(RbacState, EmailBob)}

RbacCap == RbacState.nextUuid + RbacDraws

InitializeDefaultRoles ==
    /\ nextUuid + 1 < RbacCap
    /\ Do("initializeDefaultRoles", <<>>, initializeDefaultRoles(State))

CreateRole ==
    \E name \in RoleNames, permissions \in PermissionLists :
        /\ nextUuid < RbacCap
        /\ Do("createRole", [name |-> name, permissions |-> permissions],
              createRole(State, name, permissions))

UpdateRole ==
    \E id \in RoleIds, update \in RoleUpdates :
        Do("updateRole", [id |-> id, name |-> update.name, change |-> update.change],
           updateRole(State, id, update.name, update.change))

DeleteRole ==
    \E id \in RoleIds :
        Do("deleteRole", [id |-> id], deleteRole(State, id))

AssignRoleToUser ==
    \E userId \in Assignees, roleId \in RoleIds :
        /\ nextUuid < RbacCap
        /\ Do("assignRoleToUser", [userId |-> userId, roleId |-> roleId],
              assignRoleToUser(State, userId, roleId))

RemoveRoleFromUser ==
    \E userId \in {RoleHolder}, roleId \in {r.id : r \in roles} :
        Do("removeRoleFromUser", [userId |-> userId, roleId |-> roleId],
           removeRoleFromUser(State, userId, roleId))

GetUserPermissions ==
    \E userId \in Readers :
        Do("getUserPermissions", [userId |-> userId],
           getUserPermissions(State, now, userId))

CheckUserPermission ==
    \E userId \in {RoleHolder}, permission \in PermissionsAsked :
        Do("checkUserPermission", [userId |-> userId, permission |-> permission],
           checkUserPermission(State, now, userId, permission))

InitRbac == InitWith(RbacState)

NextRbac ==
    \/ InitializeDefaultRoles
    \/ CreateRole
    \/ UpdateRole
    \/ DeleteRole
    \/ AssignRoleToUser
    \/ RemoveRoleFromUser
    \/ GetUserPermissions
    \/ CheckUserPermission
    \/ Tick

SpecRbac == InitRbac /\ [][NextRbac]_vars


(***************************************************************************)
(* Permissions.                                                            *)
(***************************************************************************)
Range(seq) == {seq[i] : i \in DOMAIN seq}

\* the roles the user_roles table gives a user
RolesOf(userId) ==
    {r \in roles : \E ur \in userRoles : ur.userId = userId /\ ur.roleId = r.id}

PermissionUnion(userId) == UNION {Range(r.permissions) : r \in RolesOf(userId)}

(* C23: for a user holding a role whose permissions contain the wildcard   *)
(* '*', checkUserPermission returns hasPermission = true for every         *)
(* permission asked.                                                       *)
C23_WildcardGrantsEverything ==
    [][(Step("checkUserPermission")
        /\ Wildcard \in PermissionUnion(call'.input.userId))
        => result'.success /\ result'.hasPermission]_vars

(* C24: getUserPermissions returns the union of the permission lists of    *)
(* the user's roles, each permission once (so nothing for a user without   *)
(* roles), and for a user without a wildcard role checkUserPermission is   *)
(* true exactly for the permissions of that union.                         *)
C24_PermissionsAreTheUnion ==
    [][/\ Step("getUserPermissions")
            => /\ result'.success
               /\ Range(result'.permissions) = PermissionUnion(call'.input.userId)
               /\ Len(result'.permissions)
                    = Cardinality(PermissionUnion(call'.input.userId))
       /\ (Step("checkUserPermission")
            /\ Wildcard \notin PermissionUnion(call'.input.userId))
            => /\ result'.success
               /\ result'.hasPermission
                    <=> call'.input.permission \in PermissionUnion(call'.input.userId)]_vars

\* two roles that share a permission, one of them listing a permission
\* twice, resolved for their holder
C24_Witness ==
    /\ call.op = "getUserPermissions"
    /\ Cardinality(RolesOf(call.input.userId)) = 2
    /\ \E r1, r2 \in RolesOf(call.input.userId) :
            r1 # r2 /\ Range(r1.permissions) \cap Range(r2.permissions) # {}
    /\ \E r \in RolesOf(call.input.userId) :
            Len(r.permissions) > Cardinality(Range(r.permissions))
    /\ Len(result.permissions) = 3

\* what the resolver computes from the tables alone
FreshPermissions(userId) == PermissionsOf(getUserRoles(State, userId))

Cached(cache, userId) == \E c \in cache : c.userId = userId

C26_ProtectedRolesRemain ==
    \A id \in {AdminRoleId, UserRoleId} : \E r \in roles : r.id = id


(***************************************************************************)
(* Concurrent assignRoleToUser calls: every awaited query is one step.     *)
(***************************************************************************)
AssignRequest(pc, userId, roleId) ==
    [op |-> "assignRoleToUser", pc |-> pc, userId |-> userId, roleId |-> roleId,
     result |-> UserRoleResult(FALSE, "", NoUserRole)]

IdleAssignRequest == [AssignRequest("idle", Null, Null) EXCEPT !.op = "idle"]

assignRoleToUserStep(s, p) ==
    CASE p.pc = "findUser" ->
            IF ~RbacFeatureEnabled
            THEN Return(s, p, UserRoleResult(FALSE, RbacDisabled, NoUserRole))
            ELSE IF UsersById(s, p.userId) = {}
            THEN Return(s, p, UserRoleResult(FALSE, "User not found", NoUserRole))
            ELSE Goto(s, p, "findRole")
      [] p.pc = "findRole" ->
            IF RolesById(s, p.roleId) = {}
            THEN Return(s, p, UserRoleResult(FALSE, "Role not found", NoUserRole))
            ELSE Goto(s, p, "findAssignment")
      [] p.pc = "findAssignment" ->
            IF AssignmentsOf(s, p.userId, p.roleId) # {}
            THEN Return(s, p, UserRoleResult(FALSE, "User already has this role",
                                             NoUserRole))
            ELSE Goto(s, p, "insertUserRole")
      [] p.pc = "insertUserRole" ->
            \* user_roles has no key but id: the insert cannot fail
            LET ins == InsertUserRole(s, p.userId, p.roleId)
            IN  Return(ins.s, p, ins.r)

AssignRequests ==
    {AssignRequest("findUser", userId, roleId) :
        userId \in {RoleHolder, UnknownUserId},
        roleId \in {AdminRoleId, UserRoleId, UnknownRoleId}}

StartAssignRoleToUser ==
    \E i \in Procs, request \in AssignRequests :
        /\ procs[i].op = "idle"
        /\ Advance(i, [s |-> State, p |-> request])

AssignRoleToUserStep ==
    \E i \in Procs :
        /\ Running(i, "assignRoleToUser")
        /\ Advance(i, assignRoleToUserStep(State, procs[i]))

InitRbacConcurrent ==
    /\ InitDb(RbacState)
    /\ procs = [i \in Procs |-> IdleAssignRequest]

NextRbacConcurrent ==
    \/ StartAssignRoleToUser
    \/ AssignRoleToUserStep

SpecRbacConcurrent == InitRbacConcurrent /\ [][NextRbacConcurrent]_vars

(* C27: the user_roles table never holds two rows for the same             *)
(* (userId, roleId) pair, however assignRoleToUser calls interleave.       *)
C27_OneRowPerAssignment ==
    \A a, b \in userRoles :
        (a.userId = b.userId /\ a.roleId = b.roleId) => a = b


(***************************************************************************)
(* Audit log.  An action name is a string, kept as a sequence of           *)
(* characters; config.features.audit is given by `enabled` and by the set  *)
(* `off` of the flags that are set to false (a flag that is true or        *)
(* absent is not in it).                                                   *)
(***************************************************************************)
StartsWith(str, prefix) ==
    Len(str) >= Len(prefix) /\ SubSeq(str, 1, Len(prefix)) = prefix

\* the prefixes shouldLogAction tests, each with the flag that silences it
Categories ==
    {[prefix |-> <<"l", "o", "g", "i", "n">>, flag |-> "logLogin"],
     [prefix |-> <<"r", "e", "g", "i", "s", "t", "e", "r">>, flag |-> "logRegistration"],
     [prefix |-> <<"p", "a", "s", "s", "w", "o", "r", "d", ".", "r", "e", "s", "e", "t">>,
      flag |-> "logPasswordReset"],
     [prefix |-> <<"v", "e", "r", "i", "f", "i", "c", "a", "t", "i", "o", "n">>,
      flag |-> "logAccountVerification"],
     [prefix |-> <<"r", "o", "l", "e">>, flag |-> "logRoleChanges"],
     [prefix |-> <<"c", "r", "e", "d", "e", "n", "t", "i", "a", "l">>,
      flag |-> "logCredentialChanges"],
     [prefix |-> <<"s", "e", "s", "s", "i", "o", "n">>, flag |-> "logSessionOperations"]}

shouldLogAction(action, config) ==
    ~\E c \in Categories : StartsWith(action, c.prefix) /\ c.flag \in config.off

NoAuditLog == [id |-> Null, userId |-> Null, action |-> <<>>, status |-> "",
               createdAt |-> Null]

AuditResult(success, error, log) == [success |-> success, error |-> error, log |-> log]

\* createAuditLog that does not ask shouldLogAction
createAuditLogUnfiltered(s, t, input, config) ==
    IF ~config.enabled
    THEN Ret(s, AuditResult(FALSE, "Audit logging is not enabled", NoAuditLog))
    ELSE LET log == [id |-> Fresh(s), userId |-> input.userId, action |-> input.action,
                     status |-> input.status, createdAt |-> t]
         IN  Ret([Drawn(s) EXCEPT !.auditLogs = @ \cup {log}], AuditResult(TRUE, "", log))

\* of the columns, resource, resourceId, details, ipAddress and userAgent are
\* copied from the input like userId and status and are left out
createAuditLog(s, t, input, config) ==
    IF ~config.enabled
    THEN Ret(s, AuditResult(FALSE, "Audit logging is not enabled", NoAuditLog))
    ELSE IF ~shouldLogAction(input.action, config)
    THEN Ret(s, AuditResult(TRUE, "", NoAuditLog))
    ELSE LET log == [id |-> Fresh(s), userId |-> input.userId, action |-> input.action,
                     status |-> input.status, createdAt |-> t]
         IN  Ret([Drawn(s) EXCEPT !.auditLogs = @ \cup {log}], AuditResult(TRUE, "", log))

LoginSuccess == <<"l", "o", "g", "i", "n", ".", "s", "u", "c", "c", "e", "s", "s">>
LoginFailure == <<"l", "o", "g", "i", "n", ".", "f", "a", "i", "l", "u", "r", "e">>
RoleAssigned == <<"r", "o", "l", "e", ".", "a", "s", "s", "i", "g", "n">>
\* starts with 'log' but not with 'login': of no category
LogoutDone == <<"l", "o", "g", "o", "u", "t">>

AuditActions == {LoginSuccess, LoginFailure, RoleAssigned, LogoutDone}
AuditConfigs ==
    {[enabled |-> enabled, off |-> off] :
        enabled \in BOOLEAN, off \in {{}, {"logLogin"}, {"logRoleChanges", "logLogin"}}}
AuditInputs ==
    {[userId |-> userId, action |-> action, status |-> "success"] :
        userId \in {UserIdOf(RegisteredState, EmailAlice), Null},
        action \in AuditActions}

AuditCap == RegisteredState.nextUuid + AuditDraws

CreateAuditLog ==
    \E input \in AuditInputs, config \in AuditConfigs :
        /\ nextUuid < AuditCap
        /\ Do("createAuditLog", [log |-> input, config |-> config],
              createAuditLog(State, now, input, config))

InitAudit == InitWith(RegisteredState)

NextAudit ==
    \/ CreateAuditLog
    \/ Tick

SpecAudit == InitAudit /\ [][NextAudit]_vars

\* the flag of the action's category is set to false
Silenced(action, config) ==
    \E c \in Categories : StartsWith(action, c.prefix) /\ c.flag \in config.off

\* the entry of this call, and nothing else, was appended
AppendsOneEntry ==
    \E e \in auditLogs' \ auditLogs :
        /\ auditLogs' = auditLogs \cup {e}
        /\ e.userId = call'.input.log.userId
        /\ e.action = call'.input.log.action
        /\ e.createdAt = now
        /\ result'.log = e

(* C28: with audit enabled createAuditLog appends exactly one entry unless *)
(* the flag of the action's category is false, in which case it returns    *)
(* success and appends nothing; with audit disabled it returns the         *)
(* not-enabled error and appends nothing; no other table changes.          *)
C28_AuditAppendsByCategory ==
    [][Step("createAuditLog")
        => /\ UNCHANGED <<users, sessions, cookie, usersTwoFactor, challenges,
                          resetTokens, magicTokens, verifTokens, verifStatus,
                          outbox, roles, userRoles, permissionCache,
                          socialAccounts, oauthStates>>
           /\ IF ~call'.input.config.enabled
              THEN /\ ~result'.success
                   /\ result'.error = "Audit logging is not enabled"
                   /\ auditLogs' = auditLogs
              ELSE IF Silenced(call'.input.log.action, call'.input.config)
              THEN result'.success /\ auditLogs' = auditLogs
              ELSE result'.success /\ AppendsOneEntry]_vars

\* a 'login.success' entry refused because logLogin is false, after an
\* entry was appended
C28_Witness ==
    /\ call.op = "createAuditLog"
    /\ call.input.config.enabled
    /\ "logLogin" \in call.input.config.off
    /\ call.input.log.action = LoginSuccess
    /\ result.success
    /\ result.log = NoAuditLog
    /\ auditLogs # {}

LoginEntries(logs, userId) ==
    {e \in logs : e.userId = userId /\ e.action = LoginSuccess}

(* C29: each successful loginUser adds exactly one 'login.success' audit   *)
(* entry of the user who logged in.                                        *)
C29_LoginIsAudited ==
    [][(Step("loginUser") /\ result'.success)
        => Cardinality(LoginEntries(auditLogs', result'.userId))
            = Cardinality(LoginEntries(auditLogs, result'.userId)) + 1]_vars

\* config.features.verification.requireVerification
RequireVerification == TRUE

(* C30: with verification enabled and required, loginUser fails and        *)
(* creates no session for a user whose account is not verified.            *)
C30_UnverifiedCannotLogIn ==
    [][(Step("loginUser")
        /\ VerificationFeatureEnabled /\ RequireVerification
        /\ \E u \in UsersByEmail(State, ToLowerCase(call'.input.email)) :
                ~IsVerified(State, u.id))
        => ~result'.success /\ sessions' = sessions]_vars


(***************************************************************************)
(* Login attempts.                                                         *)
(***************************************************************************)
\* config.security.rateLimit.maxAttempts, set to one attempt per window
MaxAttempts == 1

(* C31: with maxAttempts = 1, a loginUser call that follows a failed        *)
(* loginUser call within the same window is rejected.                      *)
C31_LoginIsRateLimited ==
    [][(/\ MaxAttempts = 1
        /\ call.op = "loginUser"
        /\ ~result.success
        /\ Step("loginUser"))
        => ~result'.success]_vars

CorrectPassword(email, password) ==
    \E u \in users : u.email = ToLowerCase(email) /\ comparePassword(password, u.password)

C33_PasswordsAreHashed ==
    \A u \in users : u.password.kind = "hash"


(***************************************************************************)
(* Social login.  A state string is the base64 of the JSON of an           *)
(* OAuthState: anyone can write one.  A string that does not parse has     *)
(* json = FALSE.  What the provider answers to the code exchange and the   *)
(* profile request is an input of the callback.                            *)
(***************************************************************************)
Providers == {"google", "github"}

generateState(providerName, t) == [provider |-> providerName, createdAt |-> t]

encodeState(state) == [json |-> TRUE, provider |-> state.provider,
                       createdAt |-> state.createdAt]

Unparsable == [json |-> FALSE, provider |-> "", createdAt |-> 0]

\* ok = FALSE where the code returns null
decodeState(encodedState) ==
    [ok |-> encodedState.json,
     state |-> [provider |-> encodedState.provider,
                createdAt |-> encodedState.createdAt]]

getAuthorizationUrl(s, t, providerName) ==
    LET encodedState == encodeState(generateState(providerName, t))
    IN  Ret([s EXCEPT !.oauthStates = @ \cup {encodedState}],
            [url |-> providerName, state |-> encodedState])

NoEmail == <<>>
NoProfile == [id |-> "", email |-> NoEmail]

\* `${provider}_${profile.id}@example.com`
PlaceholderEmail(provider, id) == <<provider, "_", id, "@example.com">>

AccountsOf(s, provider, providerAccountId) ==
    {a \in s.socialAccounts :
        a.provider = provider /\ a.providerAccountId = providerAccountId}

UpdateAccount(s, t, account) ==
    [s EXCEPT !.socialAccounts = (@ \ {account}) \cup {[account EXCEPT !.updatedAt = t]}]

\* the tokens and the profile stored with the account are left out
InsertAccount(s, t, userId, provider, providerAccountId) ==
    [Drawn(s) EXCEPT !.socialAccounts =
        @ \cup {[id |-> Fresh(s), userId |-> userId, provider |-> provider,
                 providerAccountId |-> providerAccountId, updatedAt |-> t]}]

\* the user row findOrCreateUser inserts: its password is a random string
NewSocialUser(s, t, profile, provider) ==
    LET userId == Fresh(s)
        s1 == Drawn(s)
        randomPassword == TwoDigits(Fresh(s1))
        newUser == [id |-> userId,
                    email |-> IF profile.email # NoEmail THEN ToLowerCase(profile.email)
                              ELSE PlaceholderEmail(provider, profile.id),
                    password |-> PlainText(randomPassword), updatedAt |-> t]
        ins == InsertUser(Drawn(s1), newUser)
    IN  [ok |-> ins.ok, s |-> ins.s, userId |-> userId]

\* what handleCallback returns when anything below it throws
CallbackThrew(providerName) ==
    AuthFailure("Authentication with " \o providerName \o " failed")

\* the end of findOrCreateUser: read the user back, create the session
FinishSocialLogin(s, t, userId) ==
    IF UsersById(s, userId) = {} THEN Ret(s, AuthFailure("User not found"))
    ELSE LET cs == createSession(s, t, userId)
         IN  Ret(cs.s, AuthResult(TRUE, "", userId, cs.session.id))

findOrCreateUser(s, t, providerName, profile, provider) ==
    LET accounts == AccountsOf(s, provider, profile.id) IN
    IF accounts # {}
    THEN LET account == CHOOSE a \in accounts : \A b \in accounts : a.id <= b.id
         IN  FinishSocialLogin(UpdateAccount(s, t, account), t, account.userId)
    ELSE LET found == IF profile.email # NoEmail
                      THEN UsersByEmail(s, ToLowerCase(profile.email)) ELSE {}
         IN
    IF found # {}
    THEN LET userId == (CHOOSE u \in found : TRUE).id
         IN  FinishSocialLogin(InsertAccount(s, t, userId, provider, profile.id),
                               t, userId)
    ELSE LET created == NewSocialUser(s, t, profile, provider) IN
    IF ~created.ok THEN Ret(created.s, CallbackThrew(providerName))
    ELSE FinishSocialLogin(
            InsertAccount(created.s, t, created.userId, provider, profile.id),
            t, created.userId)


handleCallback(s, t, providerName, state, response) ==
    LET decoded == decodeState(state) IN
    IF ~decoded.ok \/ t - decoded.state.createdAt > OAuthStateExpiry
    THEN Ret(s, AuthFailure("Invalid or expired state"))
    ELSE IF ~response.accessToken
    THEN Ret(s, AuthFailure("Failed to obtain access token"))
    ELSE IF response.profile.id = ""
    THEN Ret(s, AuthFailure("Failed to obtain user profile"))
    ELSE findOrCreateUser(s, t, providerName, response.profile, decoded.state.provider)

ProfileCarol == [id |-> "g-1", email |-> EmailCarol]
ProfileAlice == [id |-> "g-2", email |-> EmailAliceUpper]
ProfileNoEmail == [id |-> "g-3", email |-> NoEmail]

ProviderResponses ==
    {[accessToken |-> FALSE, profile |-> NoProfile],
     [accessToken |-> TRUE, profile |-> NoProfile]}
    \cup {[accessToken |-> TRUE, profile |-> p] :
            p \in {ProfileCarol, ProfileAlice, ProfileNoEmail}}

\* state strings written by the caller of the callback
CallerStates ==
    {Unparsable} \cup {encodeState(generateState(p, now)) : p \in Providers}

SocialCap == RegisteredState.nextUuid + SocialDraws

GetAuthorizationUrl ==
    \E providerName \in Providers :
        /\ Cardinality(oauthStates) < StatesIssued
        /\ Do("getAuthorizationUrl", [provider |-> providerName],
              getAuthorizationUrl(State, now, providerName))

HandleCallback ==
    \E providerName \in {"google"}, state \in oauthStates \cup CallerStates,
       response \in ProviderResponses :
        /\ nextUuid < SocialCap
        /\ Do("handleCallback",
              [provider |-> providerName, state |-> state, response |-> response],
              handleCallback(State, now, providerName, state, response))

InitSocial == InitWith(RegisteredState)

NextSocial ==
    \/ GetAuthorizationUrl
    \/ HandleCallback
    \/ Tick

SpecSocial == InitSocial /\ [][NextSocial]_vars


(***************************************************************************)
(* Concurrent OAuth callbacks: every awaited query of findOrCreateUser is  *)
(* one step.  The state check and the exchange with the provider touch no  *)
(* table and have passed.                                                  *)
(***************************************************************************)
CallbackRequest(pc, providerName, profile) ==
    [op |-> "handleCallback", pc |-> pc, provider |-> providerName,
     profile |-> profile, userId |-> Null, result |-> NoResult]

IdleCallback == [CallbackRequest("idle", "", NoProfile) EXCEPT !.op = "idle"]

findOrCreateUserStep(s, t, p) ==
    CASE p.pc = "findAccount" ->
            LET accounts == AccountsOf(s, p.provider, p.profile.id) IN
            IF accounts # {}
            THEN Goto(s, [p EXCEPT !.userId =
                            (CHOOSE a \in accounts : \A b \in accounts : a.id <= b.id).userId],
                      "updateAccount")
            ELSE IF p.profile.email # NoEmail THEN Goto(s, p, "findUser")
            ELSE Goto(s, p, "insertUser")
      [] p.pc = "updateAccount" ->
            \* the account row found by the first query, by its id
            LET accounts == {a \in AccountsOf(s, p.provider, p.profile.id) :
                                a.userId = p.userId}
                account == CHOOSE a \in accounts : \A b \in accounts : a.id <= b.id
            IN  Goto(UpdateAccount(s, t, account), p, "getUser")
      [] p.pc = "findUser" ->
            LET found == UsersByEmail(s, ToLowerCase(p.profile.email)) IN
            IF found # {}
            THEN Goto(s, [p EXCEPT !.userId = (CHOOSE u \in found : TRUE).id],
                      "insertAccount")
            ELSE Goto(s, p, "insertUser")
      [] p.pc = "insertUser" ->
            LET created == NewSocialUser(s, t, p.profile, p.provider) IN
            IF ~created.ok THEN Return(created.s, p, CallbackThrew(p.provider))
            ELSE Goto(created.s, [p EXCEPT !.userId = created.userId], "insertAccount")
      [] p.pc = "insertAccount" ->
            \* social_accounts has no key but id: the insert cannot fail
            Goto(InsertAccount(s, t, p.userId, p.provider, p.profile.id), p, "getUser")
      [] p.pc = "getUser" ->
            IF UsersById(s, p.userId) = {}
            THEN Return(s, p, AuthFailure("User not found"))
            ELSE Goto(s, p, "createSession")
      [] p.pc = "createSession" -> CreateSessionStep(s, t, p)

CallbackRequests ==
    {CallbackRequest("findAccount", "google", profile) :
        profile \in {ProfileCarol, ProfileAlice, ProfileNoEmail}}

StartHandleCallback ==
    \E i \in Procs, request \in CallbackRequests :
        /\ procs[i].op = "idle"
        /\ Advance(i, [s |-> State, p |-> request])

FindOrCreateUserStep ==
    \E i \in Procs :
        /\ Running(i, "handleCallback")
        /\ Advance(i, findOrCreateUserStep(State, now, procs[i]))

InitSocialConcurrent ==
    /\ InitDb(RegisteredState)
    /\ procs = [i \in Procs |-> IdleCallback]

NextSocialConcurrent ==
    \/ StartHandleCallback
    \/ FindOrCreateUserStep

SpecSocialConcurrent == InitSocialConcurrent /\ [][NextSocialConcurrent]_vars

(* C34: social_accounts never holds two rows for one                       *)
(* (provider, providerAccountId), and so no identity resolves to two       *)
(* users, however OAuth callbacks interleave.                              *)
C34_OneAccountPerIdentity ==
    \A a, b \in socialAccounts :
        (a.provider = b.provider /\ a.providerAccountId = b.providerAccountId)
            => a = b

(* C39: handleCallback goes past the state check only for a state string   *)
(* that getAuthorizationUrl of the same provider handed out less than the  *)
(* state lifetime earlier.                                                 *)
C39_OnlyIssuedStatesPass ==
    [][(Step("handleCallback") /\ result'.error # "Invalid or expired state")
        => /\ call'.input.state \in oauthStates
           /\ call'.input.state.provider = call'.input.provider
           /\ now - call'.input.state.createdAt < OAuthStateExpiry]_vars


(***************************************************************************)
(* Password reset and the sessions that exist.                             *)
(***************************************************************************)
\* a row without the columns a password change writes
BesidesPassword(u) == [id |-> u.id, email |-> u.email]
BesidesUsedAt(x) == [x EXCEPT !.usedAt = Null]

Resolves(s, t, x) == getSessionByToken(s, t, x.token).r

(* C38: completePasswordReset writes nothing but the password and          *)
(* updatedAt of the user the token belongs to and the usedAt of the        *)
(* presented token; the sessions table is left as it was, and every        *)
(* session that resolved before the call resolves to the same session      *)
(* after it, the sessions of the user whose password changed included.     *)
C38_ResetKeepsSessions ==
    [][Step("completePasswordReset") =>
        /\ sessions' = sessions
        /\ \A x \in sessions :
                Resolves(State, now, x).found
                    => Resolves(State', now', x) = Resolves(State, now, x)
        /\ \A u \in users :
                u.email # ToLowerCase(call'.input.email) => u \in users'
        /\ {BesidesPassword(u) : u \in users'} = {BesidesPassword(u) : u \in users}
        /\ \A x \in resetTokens : x.token # call'.input.token => x \in resetTokens'
        /\ {BesidesUsedAt(x) : x \in resetTokens'}
                = {BesidesUsedAt(x) : x \in resetTokens}
        /\ ~result'.success => DbUnchanged
        /\ UNCHANGED <<cookie, nextUuid, usersTwoFactor, challenges, magicTokens,
                       verifTokens, verifStatus, outbox, roles, userRoles,
                       permissionCache, auditLogs, socialAccounts, oauthStates>>]_vars

\* a password has just been reset while its owner had a session that resolves
C38_Witness ==
    /\ call.op = "completePasswordReset"
    /\ result.success
    /\ \E x \in sessions, u \in users :
            /\ u.email = ToLowerCase(call.input.email)
            /\ x.userId = u.id
            /\ u.password = hashPassword(call.input.password, BcryptWorkFactor)
            /\ Resolves(State, now, x).found


(***************************************************************************)
(* Recovery codes: the index verifyRecoveryCode returns.                   *)
(***************************************************************************)
\* the stored entries a code compares equal to
MatchingEntries(code, hashedCodes) ==
    {i \in DOMAIN hashedCodes : comparePassword(code, hashedCodes[i])}

(* C36: for every enrollment and every code a user may enter,              *)
(* verifyRecoveryCode returns the zero-based index of a stored hash the    *)
(* code matches (so index i for the i-th recovery code entered as          *)
(* displayed, dashes included), and -1 when neither the code nor its       *)
(* normalised form matches any stored hash.                                *)
C36_ReturnsMatchingIndex ==
    \A setup \in usersTwoFactor :
        \A code \in CodeInputs(setup.userId) :
            LET hashedCodes == setup.backupCodes
                index == verifyRecoveryCode(code, hashedCodes)
            IN  /\ MatchingEntries(code, hashedCodes) # {}
                    => index + 1 \in MatchingEntries(code, hashedCodes)
                /\ (/\ MatchingEntries(code, hashedCodes) = {}
                    /\ MatchingEntries(NormalizeCode(code), hashedCodes) = {})
                    => index = Null


(***************************************************************************)
(* registerUser over a store whose writes can fail: execute() of an insert *)
(* throws, and the catch of registerUser turns the error into a failure    *)
(* result.  failedWrite names the insert that throws, "none" when the      *)
(* store is healthy.                                                       *)
(***************************************************************************)
StoreFaults == {"none", "users", "sessions"}

registerUserOnStore(s, t, email, password, failedWrite) ==
    LET v == validateRegistrationInput(email, password) IN
    IF ~v.valid THEN Ret(s, AuthFailure(v.error))
    ELSE IF UsersByEmail(s, ToLowerCase(email)) # {}
    THEN Ret(s, AuthFailure("User already exists"))
    ELSE
        LET hashedPassword == hashPassword(password, BcryptWorkFactor)
            userId == Fresh(s)
            newUser == [id |-> userId, email |-> ToLowerCase(email),
                        password |-> hashedPassword, updatedAt |-> t]
            ins == InsertUser(Drawn(s), newUser)
        IN  IF failedWrite = "users" \/ ~ins.ok
            THEN Ret(Drawn(s), AuthFailure("Registration failed"))
            ELSE IF failedWrite = "sessions"
            \* createSession has drawn the token and the id; its insert throws
            THEN Ret(Drawn(Drawn(ins.s)), AuthFailure("Registration failed"))
            ELSE LET cs == createSession(ins.s, t, userId)
                 IN  Ret(cs.s, AuthResult(TRUE, "", userId, cs.session.id))

RegisterUserOnStore ==
    \E email \in {EmailAlice, EmailAliceUpper, EmailBob, EmailNoAt},
       password \in {Password1, PasswordShort}, failedWrite \in StoreFaults :
        /\ nextUuid <= MaxUuid
        /\ Do("registerUser",
              [email |-> email, password |-> password, failedWrite |-> failedWrite],
              registerUserOnStore(State, now, email, password, failedWrite))

NextFaults ==
    \/ RegisterUserOnStore
    \/ LogoutUser
    \/ Tick

SpecFaults == Init /\ [][NextFaults]_vars

(* C37: a registerUser call that returns a failure result has added no     *)
(* user row and no session row, also when one of its inserts failed.       *)
C37_FailedRegistrationAddsNothing ==
    [][(Step("registerUser") /\ ~result'.success)
        => (users' = users /\ sessions' = sessions)]_vars


(***************************************************************************)
(* getUserPermissions in flight while roles change: the cache test, the    *)
(* two selects of getUserRoles and the cache write are steps of their own. *)
(* The mutations and the later checks run from call to return.             *)
(***************************************************************************)
PermissionsRequest(pc, userId) ==
    [op |-> "getUserPermissions", pc |-> pc, userId |-> userId, roleIds |-> {},
     roles |-> <<>>, result |-> UserPermissionsResult(FALSE, "", <<>>, <<>>)]

IdlePermissionsRequest == [PermissionsRequest("idle", Null) EXCEPT !.op = "idle"]

getUserPermissionsStep(s, t, p) ==
    CASE p.pc = "getPermissionsFromCache" ->
            IF ~RbacFeatureEnabled
            THEN Return(s, p, UserPermissionsResult(FALSE, RbacDisabled, <<>>, <<>>))
            ELSE LET cached == IF CachePermissionsEnabled
                               THEN getPermissionsFromCache(s, t, p.userId)
                               ELSE [s |-> s, hit |-> FALSE, permissions |-> <<>>]
                 IN  IF cached.hit
                     THEN Return(cached.s, p,
                                 UserPermissionsResult(TRUE, "", cached.permissions, <<>>))
                     ELSE Goto(cached.s, p, "selectUserRoles")
      [] p.pc = "selectUserRoles" ->
            LET roleIds == {ur.roleId : ur \in {x \in s.userRoles : x.userId = p.userId}}
            IN  IF roleIds = {} THEN Goto(s, p, "cachePermissions")
                ELSE Goto(s, [p EXCEPT !.roleIds = roleIds], "selectRoles")
      [] p.pc = "selectRoles" ->
            Goto(s, [p EXCEPT !.roles = OrderById({r \in s.roles : r.id \in p.roleIds})],
                 "cachePermissions")
      [] p.pc = "cachePermissions" ->
            LET permissions == PermissionsOf(p.roles)
            IN  Return(IF CachePermissionsEnabled
                       THEN cachePermissions(s, t, p.userId, permissions)
                       ELSE s,
                       p, UserPermissionsResult(TRUE, "", permissions, p.roles))

\* one call in flight is enough for the race with a mutation
StartGetUserPermissions ==
    \E i \in Procs :
        /\ \A j \in Procs : procs[j].op = "idle"
        /\ Advance(i, [s |-> State,
                       p |-> PermissionsRequest("getPermissionsFromCache", RoleHolder)])

GetUserPermissionsStep ==
    \E i \in Procs :
        /\ Running(i, "getUserPermissions")
        /\ Advance(i, getUserPermissionsStep(State, now, procs[i]))

InitRbacRace ==
    /\ InitDb(RbacState)
    /\ procs = [i \in Procs |-> IdlePermissionsRequest]

NextRbacRace ==
    \/ StartGetUserPermissions
    \/ GetUserPermissionsStep
    \/ AssignRoleToUser
    \/ RemoveRoleFromUser
    \/ UpdateRole
    \/ DeleteRole
    \/ GetUserPermissions
    \/ CheckUserPermission

SpecRbacRace == InitRbacRace /\ [][NextRbacRace]_vars

RoleMutations == {"assignRoleToUser", "removeRoleFromUser", "updateRole", "deleteRole"}

(* C35: a permission check that starts after assignRoleToUser,             *)
(* removeRoleFromUser, updateRole or deleteRole has returned answers from  *)
(* the roles and assignments as the mutation left them, also when a        *)
(* getUserPermissions call of the same user was in flight during the       *)
(* mutation.  Stated for the check that is the next call after the         *)
(* mutation's return.                                                      *)
C35_ChecksAfterMutationAreFresh ==
    [][(call.op \in RoleMutations /\ result.success)
        => /\ Step("getUserPermissions")
                => result'.permissions = FreshPermissions(call'.input.userId)
           /\ Step("checkUserPermission")
                => result'.hasPermission
                     = Includes(FreshPermissions(call'.input.userId),
                                call'.input.permission)]_vars

====
